---------------------------- MODULE Spec2Model ----------------------------
(***************************************************************************)
(* A model of golf/telemetry/instrumentation.py: the provider state, the   *)
(* tool / resource / prompt wrappers returned by instrument_tool,          *)
(* instrument_resource and instrument_prompt, and the session registry of  *)
(* SessionTracingMiddleware.dispatch.                                      *)
(*                                                                         *)
(* The host is an asyncio event loop: one coroutine runs at a time and     *)
(* gives up the loop only at an await.  `running` is the coroutine that    *)
(* holds the loop; a step of a coroutine is taken only while it holds the  *)
(* loop (or takes it, when the loop is free).                              *)
(***************************************************************************)
EXTENDS Integers, Sequences, FiniteSets, TLC

VARIABLES
    provider,    \* module global _provider: "None" or "provider"
    tracer,      \* module global _tracer (memoized tracer): "None" or "tracer"
    collector,   \* golf.metrics: "available", "missing" (the import raises ImportError),
                 \* or "raises" (its calls raise an Exception)
    lifespan,    \* the telemetry_lifespan context manager: where it is and what it did
    running,     \* the coroutine holding the event loop: <<"none">>, <<"inv", s>> or <<"req", r>>
    comp,        \* per slot: the handler registered there and what instrument_* returned for it
    inv,         \* per slot: the current / last call of the registered callable
    now,         \* time.time()
    seen_sessions,        \* SessionTracingMiddleware.seen_sessions
    session_start_times,  \* SessionTracingMiddleware.session_start_times
    evicted,     \* history: ids dropped by a compaction and not inserted again since
    insertion_order,  \* history: the ids of seen_sessions, oldest insertion first
    req,         \* per request slot: the dispatch coroutine of one HTTP request
    got          \* history: the calls the host made of get_tracer() itself

vars == <<provider, tracer, collector, lifespan, running, comp, inv, now,
          seen_sessions, session_start_times, evicted, insertion_order, req,
          got>>

wrapVars == <<comp, inv>>
sessionVars == <<now, seen_sessions, session_start_times, evicted,
                 insertion_order, req>>

(***************************************************************************)
(* Bounds of the model.                                                    *)
(***************************************************************************)
NumSlots == 2        \* component slots, each with at most one call in flight
NumRequests == 2     \* HTTP requests in flight at once
MaxTime == 2         \* the clock runs 0..MaxTime
SessionCap == 2      \* stands for the cap 10000 of line 893
SessionKeep == 1     \* stands for the 5000 retained of line 895
MaxCalls == 3        \* calls of get_tracer() the host makes itself

Slots == 1..NumSlots
Requests == 1..NumRequests

NoLoop == <<"none">>

(***************************************************************************)
(* Handlers.  A handler is the function handed to instrument_*: its kind   *)
(* says which instrument_* it is handed to, isCoroutine is                 *)
(* asyncio.iscoroutinefunction(func).                                      *)
(***************************************************************************)
Kinds == {"tool", "resource", "prompt"}

ComponentName(kind) ==
    CASE kind = "tool" -> "lookup"
      [] kind = "resource" -> "items/{id}"
      [] kind = "prompt" -> "greet"

Handlers == [kind : Kinds, isCoroutine : BOOLEAN]

\* Exceptions a handler raises: subclasses of Exception, with str(e) as msg.
Exceptions == { [type |-> "KeyError", msg |-> "'id'"],
                [type |-> "ValueError", msg |-> "bad input"] }

LookupError == [type |-> "KeyError", msg |-> "'id'"]

\* asyncio.CancelledError: a BaseException, thrown into a suspended coroutine.
CancelledError == [type |-> "CancelledError", msg |-> ""]

\* Values a handler returns, by the type the summarizers look at.
\* A string is a sequence of characters; keys are the keys of a dict, in order.
ResultValues == { [cls |-> "NoneType", len |-> 0, keys |-> <<>>],
                  [cls |-> "str", len |-> 2, keys |-> <<>>],
                  [cls |-> "list", len |-> 2, keys |-> <<>>],
                  [cls |-> "dict", len |-> 2, keys |-> << <<"a">>, <<"b">> >>] }

Outcomes == { [kind |-> "return", value |-> v] : v \in ResultValues }
            \cup { [kind |-> "raise", exc |-> e] : e \in Exceptions }


(***************************************************************************)
(* The execution-context argument (kwargs.get("ctx")) and the baggage of   *)
(* the caller's context.  A ctx value is absent (no ctx keyword, or a      *)
(* falsy one) or an object with some fields; a field value is None or a    *)
(* value whose str() form is `text`.                                       *)
(***************************************************************************)
NoneValue == [isNone |-> TRUE, text |-> "None"]
Value(t) == [isNone |-> FALSE, text |-> t]

\* A value whose str() form is `text` and which is `raw` itself.
RawValue(raw, text) == [isNone |-> FALSE, raw |-> raw, text |-> text]

NoCtx == [present |-> FALSE, fields |-> <<>>]
CtxObject(f) == [present |-> TRUE, fields |-> f]

NoBaggage == ""

\* ctx_attrs of the wrappers: the only fields ever copied to the span.
ctx_attrs == <<"request_id", "session_id", "client_id", "user_id", "tenant_id">>

CtxKey(attr) ==
    CASE attr = "request_id" -> "mcp.context.request_id"
      [] attr = "session_id" -> "mcp.context.session_id"
      [] attr = "client_id" -> "mcp.context.client_id"
      [] attr = "user_id" -> "mcp.context.user_id"
      [] attr = "tenant_id" -> "mcp.context.tenant_id"

\* str(value)
Str(value) == value.text

Range(f) == { f[x] : x \in DOMAIN f }

EmptyAttrs == [k \in {} |-> ""]

\* The loop over ctx_attrs without its `if value is not None`.
CtxAttributes_copies_null(ctx) ==
    IF ~ctx.present THEN EmptyAttrs
    ELSE LET copied == { a \in Range(ctx_attrs) : a \in DOMAIN ctx.fields }
             keyOf == [a \in copied |-> CtxKey(a)]
         IN  [k \in { keyOf[a] : a \in copied } |->
                 Str(ctx.fields[CHOOSE a \in copied : keyOf[a] = k])]

\* The loop over ctx_attrs: hasattr(ctx, attr), value is not None, str(value).
CtxAttributes(ctx) ==
    IF ~ctx.present THEN EmptyAttrs
    ELSE LET copied == { a \in Range(ctx_attrs) :
                            /\ a \in DOMAIN ctx.fields
                            /\ ~ctx.fields[a].isNone }
             keyOf == [a \in copied |-> CtxKey(a)]
         IN  [k \in { keyOf[a] : a \in copied } |->
                 Str(ctx.fields[CHOOSE a \in copied : keyOf[a] = k])]

\* The wrappers not reading the baggage.
BaggageAttributes_not_read(bag) == EmptyAttrs

\* baggage.get_baggage("mcp.session.id"), copied when truthy.
BaggageAttributes(bag) ==
    IF bag # NoBaggage THEN ("mcp.session.id" :> bag) ELSE EmptyAttrs

\* The span name each wrapper computes.
SpanName(kind) ==
    CASE kind = "tool" -> "mcp.tool.lookup.execute"
      [] kind = "resource" -> "mcp.resource.template.read"
      [] kind = "prompt" -> "mcp.prompt.greet.generate"

\* The attributes set right after the span is opened.
FixedAttributes(h, call, isAsync) ==
    CASE h.kind = "tool" ->
            [k \in {"mcp.component.type", "mcp.component.name", "mcp.tool.name",
                    "mcp.tool.function", "mcp.tool.module",
                    "mcp.execution.args_count", "mcp.execution.kwargs_count",
                    "mcp.execution.async"} |->
                CASE k = "mcp.component.type" -> "tool"
                  [] k = "mcp.component.name" -> ComponentName("tool")
                  [] k = "mcp.tool.name" -> ComponentName("tool")
                  [] k = "mcp.tool.function" -> "func.__name__"
                  [] k = "mcp.tool.module" -> "func.__module__"
                  [] k = "mcp.execution.args_count" -> call.nargs
                  [] k = "mcp.execution.kwargs_count" -> call.nkwargs
                  [] k = "mcp.execution.async" -> isAsync]
      [] h.kind = "resource" ->
            [k \in {"mcp.component.type", "mcp.component.name", "mcp.resource.uri",
                    "mcp.resource.is_template", "mcp.resource.function",
                    "mcp.resource.module", "mcp.execution.async"} |->
                CASE k = "mcp.component.type" -> "resource"
                  [] k = "mcp.component.name" -> ComponentName("resource")
                  [] k = "mcp.resource.uri" -> ComponentName("resource")
                  [] k = "mcp.resource.is_template" -> TRUE
                  [] k = "mcp.resource.function" -> "func.__name__"
                  [] k = "mcp.resource.module" -> "func.__module__"
                  [] k = "mcp.execution.async" -> isAsync]
      [] h.kind = "prompt" ->
            [k \in {"mcp.component.type", "mcp.component.name", "mcp.prompt.name",
                    "mcp.prompt.function", "mcp.prompt.module",
                    "mcp.execution.async"} |->
                CASE k = "mcp.component.type" -> "prompt"
                  [] k = "mcp.component.name" -> ComponentName("prompt")
                  [] k = "mcp.prompt.name" -> ComponentName("prompt")
                  [] k = "mcp.prompt.function" -> "func.__name__"
                  [] k = "mcp.prompt.module" -> "func.__module__"
                  [] k = "mcp.execution.async" -> isAsync]

\* The event names of each kind of wrapper.
StartedEvent(kind) ==
    CASE kind = "tool" -> "tool.execution.started"
      [] kind = "resource" -> "resource.read.started"
      [] kind = "prompt" -> "prompt.generation.started"

CompletedEvent(kind) ==
    CASE kind = "tool" -> "tool.execution.completed"
      [] kind = "resource" -> "resource.read.completed"
      [] kind = "prompt" -> "prompt.generation.completed"

ErrorEvent(kind) ==
    CASE kind = "tool" -> "tool.execution.error"
      [] kind = "resource" -> "resource.read.error"
      [] kind = "prompt" -> "prompt.generation.error"

StartedEvents == { StartedEvent(k) : k \in Kinds }
CompletedEvents == { CompletedEvent(k) : k \in Kinds }
ErrorEvents == { ErrorEvent(k) : k \in Kinds }


(***************************************************************************)
(* Result summaries (the attributes set after a successful call).          *)
(***************************************************************************)
\* str(k)[:20] + "..." if len(str(k)) > 20 else str(k)
KeyLimit == 20
SampleLimit == 5

\* TruncateKey without the "..." appended.
TruncateKey_no_ellipsis(k) ==
    IF Len(k) > KeyLimit THEN SubSeq(k, 1, KeyLimit) ELSE k

TruncateKey(k) ==
    IF Len(k) > KeyLimit THEN SubSeq(k, 1, KeyLimit) \o <<".", ".", ".">> ELSE k

\* ",".join(keys)
RECURSIVE Join(_)
Join(keys) ==
    IF keys = <<>> THEN <<>>
    ELSE IF Len(keys) = 1 THEN keys[1]
    ELSE keys[1] \o <<",">> \o Join(Tail(keys))

\* hasattr(result, "__len__"): the classes of the inputs that have a length.
HasLen(v) == v.cls \in {"str", "bytes", "dict", "list", "tuple", "ndarray"}

ToolResultAttributes(v) ==
    IF v.cls = "NoneType" THEN EmptyAttrs
    ELSE ( CASE v.cls \in {"str", "int", "float", "bool"} ->
                    ("mcp.tool.result.value" :> "str(result)")
                    @@ ("mcp.tool.result.type" :> v.cls)
             [] v.cls = "list" ->
                    ("mcp.tool.result.count" :> v.len)
                    @@ ("mcp.tool.result.type" :> "array")
             [] v.cls = "dict" ->
                    ("mcp.tool.result.count" :> v.len)
                    @@ ("mcp.tool.result.type" :> "object")
                    @@ ( IF v.len > 0 /\ v.len <= SampleLimit
                         THEN ("mcp.tool.result.sample_keys" :>
                                 Join([i \in 1..Len(v.keys) |-> TruncateKey(v.keys[i])]))
                         ELSE EmptyAttrs )
             [] OTHER -> IF HasLen(v)
                         THEN ("mcp.tool.result.length" :> v.len)
                         ELSE EmptyAttrs )
         @@ ("mcp.tool.result.class" :> v.cls)

ResourceResultAttributes(v) ==
    ( IF HasLen(v)
      THEN ("mcp.resource.result.size" :> v.len) ELSE EmptyAttrs )
    @@ ( CASE v.cls = "str" ->
                  ("mcp.resource.result.type" :> "text")
                  @@ ("mcp.resource.result.length" :> v.len)
           [] v.cls = "bytes" ->
                  ("mcp.resource.result.type" :> "binary")
                  @@ ("mcp.resource.result.size_bytes" :> v.len)
           [] v.cls = "dict" ->
                  ("mcp.resource.result.type" :> "object")
                  @@ ("mcp.resource.result.keys_count" :> v.len)
           [] v.cls = "list" ->
                  ("mcp.resource.result.type" :> "array")
                  @@ ("mcp.resource.result.items_count" :> v.len)
           [] OTHER -> EmptyAttrs )

PromptResultAttributes(v) ==
    CASE v.cls = "list" ->
            ("mcp.prompt.result.message_count" :> v.len)
            @@ ("mcp.prompt.result.type" :> "message_list")
      [] v.cls = "str" ->
            ("mcp.prompt.result.type" :> "string")
            @@ ("mcp.prompt.result.length" :> v.len)
      [] OTHER -> ("mcp.prompt.result.type" :> v.cls)

\* What a statement of the result summary raises when it fails.
SummaryError == [type |-> "TypeError", msg |-> "summary failed"]

\* A statement of the result summary of this kind of wrapper raises for v:
\* len(result) of a value that has __len__ and no length (a 0-d array), in
\* the tool and resource wrappers; ",".join(unique_roles) of roles that are
\* no strings, in the prompt wrappers.
SummaryRaises(kind, v) ==
    CASE kind \in {"tool", "resource"} -> v.cls = "ndarray"
      [] kind = "prompt" ->
            v.cls = "list" /\ "roles" \in DOMAIN v /\ v.roles = "not str"

\* The attributes the summary has set when its statement raises.
AttributesBeforeSummaryRaises(kind, v) ==
    IF kind = "prompt"
    THEN ("mcp.prompt.result.message_count" :> v.len)
         @@ ("mcp.prompt.result.type" :> "message_list")
    ELSE EmptyAttrs

ResultAttributes(kind, v) ==
    CASE kind = "tool" -> ToolResultAttributes(v)
      [] kind = "resource" -> ResourceResultAttributes(v)
      [] kind = "prompt" -> PromptResultAttributes(v)

(***************************************************************************)
(* Calls to the metrics collector.  `from golf.metrics import ...` raises  *)
(* ImportError when the collector is missing, and the wrappers pass.       *)
(* Only the tool wrappers report anything.                                 *)
(***************************************************************************)
\* What a call to the collector raises when the collector fails.
CollectorError == [type |-> "RuntimeError", msg |-> "collector failed"]

\* The wrapper of this kind calls the collector, and the call raises.
MetricsRaise(kind, coll) == kind = "tool" /\ coll = "raises"

SuccessMetrics(kind, coll) ==
    IF kind = "tool" /\ coll = "available"
    THEN << <<"increment_tool_execution", ComponentName("tool"), "success">>,
            <<"record_tool_duration", ComponentName("tool"), "elapsed">> >>
    ELSE <<>>

ErrorMetrics(kind, coll, e) ==
    IF kind = "tool" /\ coll = "available"
    THEN << <<"increment_tool_execution", ComponentName("tool"), "error">>,
            <<"increment_error", "tool", e.type>> >>
    ELSE <<>>


(***************************************************************************)
(* Provider state and get_tracer.                                          *)
(***************************************************************************)
\* get_tracer(): <<the tracer returned, the new value of _tracer>>
\* get_tracer keeping in _tracer whatever it returns.
get_tracer_memoizes_noop(prov, memo) ==
    IF prov = "None" THEN <<"noop", "noop">>
    ELSE <<"tracer", "tracer">>

get_tracer(prov, memo) ==
    IF prov = "None" THEN <<"noop", memo>>
    ELSE <<"tracer", "tracer">>

\* instrument_* without its `if _provider is None: return func`.
instrument_always_wraps(h, prov, memo) ==
    [callable |-> IF h.isCoroutine THEN "async_wrapper" ELSE "sync_wrapper",
     tracer |-> get_tracer(prov, memo)[1],
     memo |-> get_tracer(prov, memo)[2]]

\* instrument_tool / instrument_resource / instrument_prompt: what is returned
\* for handler h, the tracer the wrappers close over, and the new _tracer.
instrument(h, prov, memo) ==
    IF prov = "None"
    THEN [callable |-> "func", tracer |-> "not obtained", memo |-> memo]
    ELSE [callable |-> IF h.isCoroutine THEN "async_wrapper" ELSE "sync_wrapper",
          tracer |-> get_tracer(prov, memo)[1],
          memo |-> get_tracer(prov, memo)[2]]

NoComp == [func |-> [kind |-> "tool", isCoroutine |-> FALSE],
           callable |-> "none", tracer |-> "not obtained"]

\* task: the request whose downstream chain makes the call (0: none).
NoCall == [nargs |-> 0, nkwargs |-> 0, ctx |-> NoCtx, baggage |-> NoBaggage,
           task |-> 0]

NoOutcome == [kind |-> "none"]

\* func(*args, **kwargs): the arguments func is called with.
NoArgs == [nargs |-> 0, nkwargs |-> 0, ctx |-> NoCtx]
Args(call) == [nargs |-> call.nargs, nkwargs |-> call.nkwargs, ctx |-> call.ctx]

\* spanTracer: the tracer the span of the call was opened with; outcome: what
\* func did; result: what the caller of the callable gets; statuses: the
\* status codes span.set_status was called with, in order.
IdleInv == [pc |-> "idle", call |-> NoCall, passed |-> NoArgs,
            awaited |-> FALSE, trace |-> <<>>,
            spanTracer |-> "none",
            name |-> "", status |-> "UNSET", statusMsg |-> "", statuses |-> <<>>,
            attrs |-> EmptyAttrs, errorAttrs |-> EmptyAttrs,
            metrics |-> <<>>, outcome |-> NoOutcome, result |-> NoOutcome]

\* The environment init_telemetry reads: OTEL_TRACES_EXPORTER, whether
\* OTEL_EXPORTER_OTLP_ENDPOINT is set, whether GOLF_API_KEY is set.
Configs == [exporter : {"console", "otlp_http"}, endpoint : BOOLEAN,
            golf_api_key : BOOLEAN]

\* lines 33-39: with a Golf API key and no endpoint, the exporter kind and the
\* endpoint are written into the environment before they are read.
AutoConfigure(cfg) ==
    IF cfg.golf_api_key /\ ~cfg.endpoint
    THEN [cfg EXCEPT !.exporter = "otlp_http", !.endpoint = TRUE]
    ELSE cfg

\* Which construction of init_telemetry raises, if any.
InitFaults == {"none", "exporter", "processor", "registration"}

\* What reaches the caller when the backend cannot be set up.
BackendError == [type |-> "RuntimeError", msg |-> "backend setup failed"]

\* init_telemetry with the half-built provider stored in _provider before the
\* span processor is attached.
init_telemetry_stores_early(cfg, fault, prov) ==
    LET env == AutoConfigure(cfg)
    IN  IF env.exporter = "otlp_http" /\ ~env.endpoint
        THEN [result |-> "None", provider |-> prov, steps |-> <<"warning">>]
        ELSE IF fault = "exporter"
        THEN [result |-> "raise", provider |-> prov,
              steps |-> <<"TracerProvider", "print_exc">>]
        ELSE IF fault \in {"processor", "registration"}
        THEN [result |-> "raise", provider |-> "provider",
              steps |-> <<"TracerProvider", "exporter", "print_exc">>]
        ELSE [result |-> "provider", provider |-> "provider",
              steps |-> <<"TracerProvider", "exporter", "BatchSpanProcessor",
                          "set_tracer_provider">>]

\* init_telemetry with the endpoint check left out.
init_telemetry_no_endpoint_check(cfg, fault, prov) ==
    IF fault = "none"
    THEN [result |-> "provider", provider |-> "provider",
          steps |-> <<"TracerProvider", "exporter", "BatchSpanProcessor",
                      "set_tracer_provider">>]
    ELSE [result |-> "raise", provider |-> prov,
          steps |-> <<"TracerProvider", "print_exc">>]

\* init_telemetry: what it returns (or that it raises), the new value of
\* _provider (prov is the old one), and what it constructs on the way.
init_telemetry(cfg, fault, prov) ==
    LET env == AutoConfigure(cfg)
    IN  IF env.exporter = "otlp_http" /\ ~env.endpoint
        THEN [result |-> "None", provider |-> prov, steps |-> <<"warning">>]
        ELSE IF fault = "exporter"
        THEN [result |-> "raise", provider |-> prov,
              steps |-> <<"TracerProvider", "print_exc">>]
        ELSE IF fault = "processor"
        THEN [result |-> "raise", provider |-> prov,
              steps |-> <<"TracerProvider", "exporter", "print_exc">>]
        ELSE IF fault = "registration"
        THEN [result |-> "raise", provider |-> prov,
              steps |-> <<"TracerProvider", "exporter", "BatchSpanProcessor",
                          "print_exc">>]
        ELSE [result |-> "provider", provider |-> "provider",
              steps |-> <<"TracerProvider", "exporter", "BatchSpanProcessor",
                          "set_tracer_provider">>]

\* Which step of the middleware setup of telemetry_lifespan raises, if any:
\* the starlette import, app.add_middleware, or the patch of handle_request.
SetupFaults == {"none", "import", "add_middleware", "patch"}

\* telemetry_lifespan with no try / except around the middleware setup: the
\* exception leaves the lifespan before its yield.
MiddlewareSetup_unguarded(fault) ==
    CASE fault = "none" -> <<"add_middleware", "patch_handle_request">>
      [] fault = "import" -> <<"raise">>
      [] fault = "add_middleware" -> <<"raise">>
      [] fault = "patch" -> <<"add_middleware", "raise">>

\* lines 838-1068: the steps of the middleware setup; an exception is caught
\* and printed.
MiddlewareSetup(fault) ==
    CASE fault = "none" -> <<"add_middleware", "patch_handle_request">>
      [] fault = "import" -> <<"print_exc">>
      [] fault = "add_middleware" -> <<"print_exc">>
      [] fault = "patch" -> <<"add_middleware", "print_exc">>

NoError == [type |-> "none", msg |-> ""]

NoConfig == [exporter |-> "console", endpoint |-> FALSE, golf_api_key |-> FALSE]

\* telemetry_lifespan before it is entered.  cfg, fault, setupFault: history,
\* the environment and the failures its last entry met.
IdleLifespan == [pc |-> "out", enabled |-> FALSE,
                 cfg |-> NoConfig, fault |-> "none", setupFault |-> "none",
                 trace |-> <<>>, error |-> NoError]

\* What the host's `async with` body ends with.
ExitKinds == {"normal", "exception"}

HostError == [type |-> "HostError", msg |-> "server failed"]

\* telemetry_lifespan from its first line to its yield (or to the exception
\* init_telemetry raises).
LifespanEnter(cfg, fault, setupFault) ==
    /\ provider = "None"
    /\ lifespan.pc = "out"
    /\ running = NoLoop
    /\ LET r == init_telemetry(cfg, fault, provider)
           setup == MiddlewareSetup(setupFault)
           entered == [IdleLifespan EXCEPT !.cfg = cfg, !.fault = fault,
                                           !.setupFault = setupFault]
       IN  /\ provider' = r.provider
           /\ lifespan' =
                IF r.result = "raise"
                THEN [entered EXCEPT !.trace = r.steps, !.error = BackendError]
                ELSE IF r.result = "None"
                THEN [entered EXCEPT !.pc = "body",
                                     !.trace = r.steps \o <<"yield">>]
                ELSE IF setup[Len(setup)] = "raise"
                THEN [entered EXCEPT !.enabled = TRUE,
                                     !.trace = r.steps \o setup,
                                     !.error = BackendError]
                ELSE [entered EXCEPT !.pc = "body", !.enabled = TRUE,
                                     !.trace = r.steps \o setup \o <<"yield">>]
    /\ UNCHANGED <<tracer, collector, got, running, wrapVars, sessionVars>>

\* telemetry_lifespan up to its yield, with nothing failing.
InitTelemetry(cfg) == LifespanEnter(cfg, "none", "none")

\* telemetry_lifespan with its cleanup after the yield and no try / finally:
\* an exception of the host's body leaves the lifespan before the cleanup.
LifespanExit_cleanup_not_in_finally(how) ==
    /\ lifespan.pc = "body"
    /\ running = NoLoop
    /\ provider' = IF lifespan.enabled /\ how = "normal" THEN "None" ELSE provider
    /\ lifespan' = [lifespan EXCEPT
                      !.pc = "out",
                      !.trace = lifespan.trace \o
                                ( IF lifespan.enabled /\ provider # "None"
                                     /\ how = "normal"
                                  THEN <<"force_flush", "shutdown", "provider_none">>
                                  ELSE <<>> ),
                      !.error = IF how = "exception" THEN HostError ELSE NoError]
    /\ UNCHANGED <<tracer, collector, got, running, wrapVars, sessionVars>>

\* telemetry_lifespan after its yield.  With tracing enabled the yield is in a
\* try whose finally does force_flush, shutdown, _provider = None (when
\* _provider is set); with tracing disabled the lifespan just returns.  An
\* exception of the host's body is thrown in at the yield and goes on.
LifespanExit(how) ==
    /\ lifespan.pc = "body"
    /\ running = NoLoop
    /\ provider' = IF lifespan.enabled THEN "None" ELSE provider
    /\ lifespan' = [lifespan EXCEPT
                      !.pc = "out",
                      !.trace = lifespan.trace \o
                                ( IF lifespan.enabled /\ provider # "None"
                                  THEN <<"force_flush", "shutdown", "provider_none">>
                                  ELSE <<>> ),
                      !.error = IF how = "exception" THEN HostError ELSE NoError]
    /\ UNCHANGED <<tracer, collector, got, running, wrapVars, sessionVars>>

\* The host leaves the lifespan normally.
Shutdown == LifespanExit("normal")

\* The host calls get_tracer() itself, in whatever state the provider is.
GetTracer ==
    /\ running = NoLoop
    /\ Len(got) < MaxCalls
    /\ LET r == get_tracer(provider, tracer)
       IN  /\ got' = Append(got, [enabled |-> provider # "None",
                                  initialized |-> lifespan.trace # <<>>,
                                  before |-> tracer,
                                  returned |-> r[1],
                                  after |-> r[2]])
           /\ tracer' = r[2]
    /\ UNCHANGED <<provider, collector, lifespan, running, wrapVars, sessionVars>>

\* A component is registered: instrument_*(h, name) is called and its result kept.
Instrument(s, h) ==
    /\ running = NoLoop
    /\ inv[s].pc \in {"idle", "done"}
    /\ LET r == instrument(h, provider, tracer)
       IN  /\ comp' = [comp EXCEPT ![s] = [func |-> h, callable |-> r.callable,
                                           tracer |-> r.tracer]]
           /\ tracer' = r.memo
    /\ inv' = [inv EXCEPT ![s] = IdleInv]
    /\ UNCHANGED <<provider, collector, got, lifespan, running, sessionVars>>

(***************************************************************************)
(* A call of the callable instrument_* returned.                           *)
(***************************************************************************)
\* The wrapper from its first line to the call of func: the span is opened,
\* the attributes are set, the started event is added, func is called.
WrapperEnter(h, call, isAsync, tr) ==
    [IdleInv EXCEPT
        !.pc = "in_handler",
        !.call = call,
        !.passed = Args(call),
        !.spanTracer = tr,
        !.name = SpanName(h.kind),
        !.attrs = BaggageAttributes(call.baggage) @@ CtxAttributes(call.ctx)
                  @@ FixedAttributes(h, call, isAsync),
        !.trace = <<"span_open", StartedEvent(h.kind), "handler_call">>]

\* The pass-through: the callable is func itself.
FuncEnter(call) ==
    [IdleInv EXCEPT !.pc = "in_handler", !.call = call, !.passed = Args(call),
                    !.trace = <<"handler_call">>]

\* WrapperSuccess with the completed event added after the `with` block.
WrapperSuccess_event_after_end(h, i, v, coll) ==
    [i EXCEPT
        !.pc = "done",
        !.status = "OK",
        !.statuses = <<"OK">>,
        !.trace = i.trace \o <<"handler_exit", "span_end", CompletedEvent(h.kind)>>,
        !.metrics = SuccessMetrics(h.kind, coll),
        !.attrs = ResultAttributes(h.kind, v) @@ i.attrs,
        !.outcome = [kind |-> "return", value |-> v],
        !.result = [kind |-> "return", value |-> v]]

\* func returned v: set_status(OK), the completed event, the metrics, the
\* result attributes, return v; the `with` block closes the span.
\* When the collector call raises (lines 224-234 catch ImportError only), the
\* exception is caught by the `except Exception` of the wrapper: it is recorded,
\* the status is set to ERROR, the error event is added, the collector is
\* called again and raises again, and that exception leaves the wrapper.
\* When a statement of the result summary raises, the status is OK and the
\* completed event and the metrics are there already; the exception is caught
\* by the same `except Exception`, and leaves the wrapper.
WrapperSuccess(h, i, v, coll) ==
    IF MetricsRaise(h.kind, coll)
    THEN [i EXCEPT
            !.pc = "done",
            !.status = "ERROR",
            !.statuses = <<"OK", "ERROR">>,
            !.statusMsg = CollectorError.msg,
            !.trace = i.trace \o <<"handler_exit", CompletedEvent(h.kind),
                                   "record_exception", ErrorEvent(h.kind), "span_end">>,
            !.errorAttrs = ("error.type" :> CollectorError.type)
                           @@ ("error.message" :> CollectorError.msg),
            !.outcome = [kind |-> "return", value |-> v],
            !.result = [kind |-> "raise", exc |-> CollectorError]]
    ELSE IF SummaryRaises(h.kind, v)
    THEN [i EXCEPT
            !.pc = "done",
            !.status = "ERROR",
            !.statuses = <<"OK", "ERROR">>,
            !.statusMsg = SummaryError.msg,
            !.trace = i.trace \o <<"handler_exit", CompletedEvent(h.kind),
                                   "record_exception", ErrorEvent(h.kind), "span_end">>,
            !.errorAttrs = ("error.type" :> SummaryError.type)
                           @@ ("error.message" :> SummaryError.msg),
            !.metrics = SuccessMetrics(h.kind, coll)
                        \o ErrorMetrics(h.kind, coll, SummaryError),
            !.attrs = AttributesBeforeSummaryRaises(h.kind, v) @@ i.attrs,
            !.outcome = [kind |-> "return", value |-> v],
            !.result = [kind |-> "raise", exc |-> SummaryError]]
    ELSE [i EXCEPT
            !.pc = "done",
            !.status = "OK",
            !.statuses = <<"OK">>,
            !.trace = i.trace \o <<"handler_exit", CompletedEvent(h.kind), "span_end">>,
            !.metrics = SuccessMetrics(h.kind, coll),
            !.attrs = ResultAttributes(h.kind, v) @@ i.attrs,
            !.outcome = [kind |-> "return", value |-> v],
            !.result = [kind |-> "return", value |-> v]]

\* WrapperError with the sync wrapper setting the status without str(e).
WrapperError_sync_drops_message(h, i, e, coll) ==
    [i EXCEPT
        !.pc = "done",
        !.status = "ERROR",
        !.statuses = <<"ERROR">>,
        !.statusMsg = IF h.isCoroutine THEN e.msg ELSE "",
        !.trace = i.trace \o <<"handler_exit", "record_exception",
                               ErrorEvent(h.kind), "span_end">>,
        !.errorAttrs = ("error.type" :> e.type) @@ ("error.message" :> e.msg),
        !.metrics = ErrorMetrics(h.kind, coll, e),
        !.outcome = [kind |-> "raise", exc |-> e],
        !.result = [kind |-> "raise", exc |-> e]]

\* func raised e (an Exception): record_exception, set_status(ERROR, str(e)), the
\* error event, the metrics, raise; the `with` block closes the span.  When
\* the collector call raises, its exception leaves the wrapper in the place of e.
WrapperError(h, i, e, coll) ==
    [i EXCEPT
        !.pc = "done",
        !.status = "ERROR",
        !.statuses = <<"ERROR">>,
        !.statusMsg = e.msg,
        !.trace = i.trace \o <<"handler_exit", "record_exception",
                               ErrorEvent(h.kind), "span_end">>,
        !.errorAttrs = ("error.type" :> e.type) @@ ("error.message" :> e.msg),
        !.metrics = ErrorMetrics(h.kind, coll, e),
        !.outcome = [kind |-> "raise", exc |-> e],
        !.result = [kind |-> "raise",
                    exc |-> IF MetricsRaise(h.kind, coll) THEN CollectorError ELSE e]]

\* WrapperUncaught with the span ended by hand on the paths of the wrapper
\* only, not by a `with` block: the span stays open.
WrapperUncaught_span_left_open(i, e) ==
    [i EXCEPT
        !.pc = "done",
        !.trace = i.trace \o <<"handler_exit">>,
        !.outcome = [kind |-> "raise", exc |-> e],
        !.result = [kind |-> "raise", exc |-> e]]

\* func raised a BaseException that is no Exception (CancelledError): no except
\* clause of the wrapper catches it; the `with` block closes the span.
WrapperUncaught(i, e) ==
    [i EXCEPT
        !.pc = "done",
        !.trace = i.trace \o <<"handler_exit", "span_end">>,
        !.outcome = [kind |-> "raise", exc |-> e],
        !.result = [kind |-> "raise", exc |-> e]]

\* The pass-through leaves: whatever func did is what the caller gets.
FuncExit(i, outcome) ==
    [i EXCEPT !.pc = "done", !.trace = i.trace \o <<"handler_exit">>,
              !.outcome = outcome, !.result = outcome]

WrapperExit(h, i, outcome, coll) ==
    IF outcome.kind = "return" THEN WrapperSuccess(h, i, outcome.value, coll)
    ELSE IF outcome.exc \in Exceptions THEN WrapperError(h, i, outcome.exc, coll)
    ELSE WrapperUncaught(i, outcome.exc)

IsWrapper(c) == c.callable \in {"async_wrapper", "sync_wrapper"}

\* The caller calls the callable of slot s.
CallEnter(s, call) ==
    /\ running = NoLoop
    /\ comp[s].callable # "none"
    /\ inv[s].pc \in {"idle", "done"}
    /\ inv' = [inv EXCEPT ![s] =
                 IF IsWrapper(comp[s])
                 THEN WrapperEnter(comp[s].func, call,
                                   comp[s].callable = "async_wrapper", comp[s].tracer)
                 ELSE FuncEnter(call)]
    /\ running' = <<"inv", s>>
    /\ UNCHANGED <<provider, tracer, collector, got, lifespan, comp, sessionVars>>

\* A coroutine handler awaits something: the loop is free for other coroutines.
HandlerSuspend(s) ==
    /\ running = <<"inv", s>>
    /\ inv[s].pc = "in_handler"
    /\ comp[s].func.isCoroutine
    /\ ~inv[s].awaited
    /\ inv' = [inv EXCEPT ![s].pc = "suspended", ![s].awaited = TRUE]
    /\ running' = NoLoop
    /\ UNCHANGED <<provider, tracer, collector, got, lifespan, comp, sessionVars>>

HandlerResume(s) ==
    /\ running = NoLoop
    /\ inv[s].pc = "suspended"
    /\ inv' = [inv EXCEPT ![s].pc = "in_handler"]
    /\ running' = <<"inv", s>>
    /\ UNCHANGED <<provider, tracer, collector, got, lifespan, comp, sessionVars>>

\* The handler returns or raises, and the callable runs on to its end.
CallExit(s, outcome) ==
    /\ running = <<"inv", s>>
    /\ inv[s].pc = "in_handler"
    /\ inv' = [inv EXCEPT ![s] =
                 IF IsWrapper(comp[s])
                 THEN WrapperExit(comp[s].func, inv[s], outcome, collector)
                 ELSE FuncExit(inv[s], outcome)]
    /\ running' = NoLoop
    /\ UNCHANGED <<provider, tracer, collector, got, lifespan, comp, sessionVars>>

\* The task is cancelled while the handler is suspended: CancelledError is
\* raised at the handler's await and leaves through the callable.
CallCancel(s) ==
    /\ running = NoLoop
    /\ inv[s].pc = "suspended"
    /\ inv' = [inv EXCEPT ![s] =
                 IF IsWrapper(comp[s])
                 THEN WrapperExit(comp[s].func, inv[s],
                                  [kind |-> "raise", exc |-> CancelledError], collector)
                 ELSE FuncExit(inv[s], [kind |-> "raise", exc |-> CancelledError])]
    /\ UNCHANGED <<provider, tracer, collector, got, lifespan, running, comp, sessionVars>>


(***************************************************************************)
(* SessionTracingMiddleware: the session registry.                         *)
(***************************************************************************)
SessionIdNames == <<"s1", "s2", "s3", "s4", "s5", "s6", "s7", "s8">>

\* One id more than the cap: enough to push the registry above it.
SessionIds == { SessionIdNames[i] : i \in 1..(SessionCap + 1) }

\* What request.query_params.get / request.headers.get return: None, the
\* empty string, or an id.
NoneStr == "<None>"
ParamValues == {NoneStr, ""} \cup SessionIds

\* `if x:` for a str-or-None
Truthy(x) == x # NoneStr /\ x # ""

\* lines 858-861: the query parameter, else the x-session-id header
ResolveSessionId(query, header) ==
    IF ~Truthy(query) THEN header ELSE query

\* `if session_id is not None:` in the place of line 864
HasSession_not_none(sid) == sid # NoneStr

\* line 864: `if session_id:`
HasSession(sid) == Truthy(sid)

SessionMetric(coll, call) == IF coll = "available" THEN <<call>> ELSE <<>>

NoObservation == [event |-> "none", duration |-> 0, metrics |-> <<>>]

\* Observe without line 870: the start time of a new session is not stored.
Observe_forgets_start(sid, seen, starts, t, coll) ==
    IF sid \notin seen
    THEN [seen |-> seen \cup {sid},
          starts |-> starts,
          obs |-> [event |-> "new", duration |-> 0,
                   metrics |-> SessionMetric(coll, <<"increment_session">>)]]
    ELSE IF sid \in DOMAIN starts
    THEN [seen |-> seen, starts |-> starts,
          obs |-> [event |-> "continuing", duration |-> t - starts[sid],
                   metrics |-> SessionMetric(coll,
                                  <<"record_session_duration", t - starts[sid]>>)]]
    ELSE [seen |-> seen, starts |-> starts,
          obs |-> [event |-> "continuing", duration |-> 0, metrics |-> <<>>]]

\* Observe with the start time of a session moved to its latest request.
Observe_refreshes_start(sid, seen, starts, t, coll) ==
    IF sid \notin seen
    THEN [seen |-> seen \cup {sid},
          starts |-> [x \in DOMAIN starts \cup {sid} |->
                         IF x = sid THEN t ELSE starts[x]],
          obs |-> [event |-> "new", duration |-> 0,
                   metrics |-> SessionMetric(coll, <<"increment_session">>)]]
    ELSE IF sid \in DOMAIN starts
    THEN [seen |-> seen,
          starts |-> [starts EXCEPT ![sid] = t],
          obs |-> [event |-> "continuing", duration |-> t - starts[sid],
                   metrics |-> SessionMetric(coll,
                                  <<"record_session_duration", t - starts[sid]>>)]]
    ELSE [seen |-> seen, starts |-> starts,
          obs |-> [event |-> "continuing", duration |-> 0, metrics |-> <<>>]]

\* lines 865-890: the registry, the start times and what is reported, after
\* a request carrying sid is seen at time t.
Observe(sid, seen, starts, t, coll) ==
    IF sid \notin seen
    THEN [seen |-> seen \cup {sid},
          starts |-> [x \in DOMAIN starts \cup {sid} |->
                         IF x = sid THEN t ELSE starts[x]],
          obs |-> [event |-> "new", duration |-> 0,
                   metrics |-> SessionMetric(coll, <<"increment_session">>)]]
    ELSE IF sid \in DOMAIN starts
    THEN [seen |-> seen, starts |-> starts,
          obs |-> [event |-> "continuing", duration |-> t - starts[sid],
                   metrics |-> SessionMetric(coll,
                                  <<"record_session_duration", t - starts[sid]>>)]]
    ELSE [seen |-> seen, starts |-> starts,
          obs |-> [event |-> "continuing", duration |-> 0, metrics |-> <<>>]]

\* lines 871-877, 884-890: the collector is called for the session, and the
\* call raises (only ImportError is caught).
ObserveRaises(sid, seen, starts, coll) ==
    /\ coll = "raises"
    /\ HasSession(sid)
    /\ (sid \notin seen \/ sid \in DOMAIN starts)

\* the test of line 893 one off: `> 10001`
OverCap_off_by_one(seen) == Cardinality(seen) > SessionCap + 1

\* line 893: `if len(self.seen_sessions) > 10000`
OverCap(seen) == Cardinality(seen) > SessionCap

\* line 895: list(self.seen_sessions)[-5000:].  A set is listed in hash
\* order, which for str keys differs from process to process and has nothing
\* to do with the order of insertion: any SessionKeep of the ids can be the
\* tail of the list.
RecentSessions(seen) ==
    { S \in SUBSET seen : Cardinality(S) = SessionKeep }

\* The compaction without the loop of lines 898-900: the start times of
\* the ids that are dropped stay.
Compact_keeps_start_times(starts, recent) ==
    [seen |-> recent, starts |-> starts]

\* lines 896-900: the registry and the start times once `recent` is kept.
Compact(starts, recent) ==
    [seen |-> recent,
     starts |-> [x \in DOMAIN starts \cap recent |-> starts[x]]]


(***************************************************************************)
(* SessionTracingMiddleware.dispatch: the HTTP span.  A path is a sequence *)
(* of characters.                                                          *)
(***************************************************************************)
Contains(str, sub) ==
    \E i \in 1..(Len(str) - Len(sub) + 1) : SubSeq(str, i, i + Len(sub) - 1) = sub

\* The rules of lines 907-913 with "/sse" looked for first.
OperationType_sse_first(path) ==
    IF Contains(path, <<"/", "s", "s", "e">>) THEN "sse.stream"
    ELSE IF Contains(path, <<"/", "m", "c", "p">>) THEN "mcp.request"
    ELSE IF Contains(path, <<"/", "a", "u", "t", "h">>) THEN "auth"
    ELSE "unknown"

\* lines 907-913
OperationType(path) ==
    IF Contains(path, <<"/", "m", "c", "p">>) THEN "mcp.request"
    ELSE IF Contains(path, <<"/", "s", "s", "e">>) THEN "sse.stream"
    ELSE IF Contains(path, <<"/", "a", "u", "t", "h">>) THEN "auth"
    ELSE "unknown"

\* method.lower()
Lower(method) ==
    CASE method = "GET" -> "get"
      [] method = "POST" -> "post"
      [] method = "DELETE" -> "delete"
      [] OTHER -> method

\* line 915: f"{operation_type}.{method.lower()}"
HttpSpanName(method, path) == <<OperationType(path), ".", Lower(method)>>

\* path.split("?")[0]
BeforeQuery(path) ==
    IF \E i \in 1..Len(path) : path[i] = "?"
    THEN SubSeq(path, 1, (CHOOSE i \in 1..Len(path) :
                            /\ path[i] = "?"
                            /\ \A j \in 1..(i - 1) : path[j] # "?") - 1)
    ELSE path

RootMarker == <<"r", "o", "o", "t">>

\* lines 984-988: the path the HTTP metrics are keyed by
CleanPath(path) ==
    LET clean == BeforeQuery(path)
    IN  IF clean # <<>> /\ clean[1] = "/"
        THEN (IF Tail(clean) = <<>> THEN RootMarker ELSE Tail(clean))
        ELSE clean

\* f"{status_code // 100}xx"
StatusClass(code) ==
    <<code \div 100, "x", "x">>

HttpMethods == {"GET"}
HttpPaths == { <<"/", "m", "c", "p">> }
\* the content-length header: absent, a number, or text int() rejects
ContentLengths == {NoneStr, "12", "abc"}
StatusCodes == {200, 404}

IsInt(text) == text = "12"

HttpSuccessMetrics(coll, method, code, path) ==
    IF coll = "available"
    THEN << <<"increment_http_request", method, code, CleanPath(path)>>,
            <<"record_http_duration", method, CleanPath(path)>> >>
    ELSE <<>>

\* The error path reporting the request count only.
HttpErrorMetrics_without_error_count(coll, method, path, e) ==
    IF coll = "available"
    THEN << <<"increment_http_request", method, 500, CleanPath(path)>> >>
    ELSE <<>>

HttpErrorMetrics(coll, method, path, e) ==
    IF coll = "available"
    THEN << <<"increment_http_request", method, 500, CleanPath(path)>>,
            <<"increment_error", "http", e.type>> >>
    ELSE <<>>

\* carried, wasEvicted: history, what the request brought and found.
\* downstream: what call_next did; result: what the caller of dispatch gets.
IdleReq == [pc |-> "idle", sid |-> NoneStr, obs |-> NoObservation,
            carried |-> FALSE, wasEvicted |-> FALSE,
            method |-> "GET", path |-> <<>>,
            name |-> <<>>, attrs |-> EmptyAttrs, trace |-> <<>>,
            status |-> "UNSET", statusMsg |-> "", statuses |-> <<>>,
            baggage |-> NoBaggage, token |-> FALSE,
            spanTracer |-> "none",
            metrics |-> <<>>, downstream |-> NoOutcome, result |-> NoOutcome]


(***************************************************************************)
(* dispatch, one step per stretch of code.  The only await of dispatch is  *)
(* `await call_next(request)`: the steps before it run one after the other *)
(* with the loop held.                                                     *)
(***************************************************************************)
\* dispatch with an await between the insertion and the cap check.
SuspensionPoints_await_before_cap_check ==
    {"idle", "cap_check", "await_call_next", "done"}

\* The positions at which a dispatch coroutine does not hold the loop.
SuspensionPoints == {"idle", "await_call_next", "done"}

\* Who holds the loop once request r has moved to position pc.
LoopAfter(r, pc) == IF pc \in SuspensionPoints THEN NoLoop ELSE <<"req", r>>

\* Request r can take its next step: it holds the loop, or it is at a
\* suspension point and the loop is free.
CanRun(r) ==
    IF req[r].pc \in SuspensionPoints THEN running = NoLoop
    ELSE running = <<"req", r>>

\* seq without the elements outside S
RECURSIVE Restrict(_, _)
Restrict(seq, S) ==
    IF seq = <<>> THEN <<>>
    ELSE IF Head(seq) \in S THEN <<Head(seq)>> \o Restrict(Tail(seq), S)
    ELSE Restrict(Tail(seq), S)

\* lines 855-890: the session id is read and the session is looked up.  An
\* exception of the collector call leaves dispatch from there.
DispatchStart(r, method, path, query, header) ==
    /\ CanRun(r)
    /\ req[r].pc \in {"idle", "done"}
    /\ LET sid == ResolveSessionId(query, header)
           o == Observe(sid, seen_sessions, session_start_times, now, collector)
           raises == ObserveRaises(sid, seen_sessions, session_start_times, collector)
           pc == IF raises THEN "done"
                 ELSE IF HasSession(sid) THEN "cap_check" ELSE "open_span"
       IN  /\ req' = [req EXCEPT ![r] =
                        [IdleReq EXCEPT !.pc = pc, !.sid = sid,
                                        !.result = IF raises
                                                   THEN [kind |-> "raise",
                                                         exc |-> CollectorError]
                                                   ELSE NoOutcome,
                                        !.method = method, !.path = path,
                                        !.carried = Truthy(query) \/ Truthy(header),
                                        !.wasEvicted = sid \in evicted,
                                        !.obs = IF HasSession(sid) THEN o.obs
                                                ELSE NoObservation]]
           /\ seen_sessions' = IF HasSession(sid) THEN o.seen ELSE seen_sessions
           /\ session_start_times' =
                 IF HasSession(sid) THEN o.starts ELSE session_start_times
           /\ evicted' = IF HasSession(sid) THEN evicted \ {sid} ELSE evicted
           /\ insertion_order' =
                 IF HasSession(sid) /\ sid \notin seen_sessions
                 THEN Append(insertion_order, sid) ELSE insertion_order
           /\ running' = LoopAfter(r, pc)
    /\ UNCHANGED <<provider, tracer, collector, got, lifespan, wrapVars, now>>

\* lines 892-900: the registry is cut down when it is over the cap.
DispatchCapCheck(r) ==
    /\ CanRun(r)
    /\ req[r].pc = "cap_check"
    /\ IF OverCap(seen_sessions)
       THEN \E recent \in RecentSessions(seen_sessions) :
              LET c == Compact(session_start_times, recent)
              IN  /\ seen_sessions' = c.seen
                  /\ session_start_times' = c.starts
                  /\ evicted' = evicted \cup (seen_sessions \ c.seen)
                  /\ insertion_order' = Restrict(insertion_order, c.seen)
       ELSE UNCHANGED <<seen_sessions, session_start_times, evicted, insertion_order>>
    /\ req' = [req EXCEPT ![r].pc = "open_span", ![r].obs = NoObservation,
                          ![r].wasEvicted = FALSE]
    /\ running' = LoopAfter(r, "open_span")
    /\ UNCHANGED <<provider, tracer, collector, got, lifespan, wrapVars, now>>

\* lines 902-948: the span is opened, the session id goes into the baggage,
\* the started event is added; then `await call_next(request)`.  When int()
\* rejects the content-length header, ValueError leaves dispatch from line 943.
DispatchOpenSpan(r, content_length) ==
    /\ CanRun(r)
    /\ req[r].pc = "open_span"
    /\ LET q == req[r]
           opened == [q EXCEPT
                        !.name = HttpSpanName(q.method, q.path),
                        !.spanTracer = get_tracer(provider, tracer)[1],
                        !.attrs = ( IF HasSession(q.sid)
                                    THEN ("mcp.session.id" :> q.sid) ELSE EmptyAttrs )
                                  @@ ("http.method" :> q.method)
                                  @@ ("http.target" :> q.path),
                        !.baggage = IF HasSession(q.sid) THEN q.sid ELSE NoBaggage,
                        !.token = HasSession(q.sid),
                        !.trace = <<"span_open">>]
       IN  IF Truthy(content_length) /\ ~IsInt(content_length)
           THEN /\ req' = [req EXCEPT ![r] =
                             [opened EXCEPT
                                !.pc = "done",
                                !.trace = opened.trace \o <<"span_end">>,
                                !.result = [kind |-> "raise",
                                            exc |-> [type |-> "ValueError",
                                                     msg |-> "invalid literal"]]]]
                /\ running' = LoopAfter(r, "done")
           ELSE /\ req' = [req EXCEPT ![r] =
                             [opened EXCEPT
                                !.pc = "await_call_next",
                                !.attrs = ( IF Truthy(content_length)
                                            THEN ("http.request.size" :> content_length)
                                            ELSE EmptyAttrs ) @@ opened.attrs,
                                !.trace = opened.trace \o <<"http.request.started">>]]
                /\ running' = LoopAfter(r, "await_call_next")
    /\ tracer' = get_tracer(provider, tracer)[2]
    /\ UNCHANGED <<provider, collector, got, lifespan, wrapVars, now,
                   seen_sessions, session_start_times, evicted, insertion_order>>

\* The `finally` of lines 1035-1037 and the end of the `with` block.
DispatchLeave(q) ==
    [q EXCEPT !.pc = "done",
              !.token = FALSE,
              !.baggage = NoBaggage,
              !.trace = q.trace \o (IF q.token THEN <<"detach">> ELSE <<>>)
                               \o <<"span_end">>]

\* lines 951-1000: call_next returned a response with status `code`.  An
\* exception of the collector call (lines 978-998 catch ImportError only) is
\* caught by the `except Exception` of line 1001, where the collector is called
\* again, and leaves dispatch.
DispatchResponse(r, code) ==
    /\ CanRun(r)
    /\ req[r].pc = "await_call_next"
    /\ LET q == req[r]
       IN  req' = [req EXCEPT ![r] = DispatchLeave(
                    IF collector = "raises"
                    THEN [q EXCEPT
                            !.attrs = ("http.status_code" :> code)
                                      @@ ("http.status_class" :> StatusClass(code))
                                      @@ q.attrs,
                            !.status = "ERROR",
                            !.statuses = <<IF code >= 400 THEN "ERROR" ELSE "OK", "ERROR">>,
                            !.statusMsg = CollectorError.msg,
                            !.trace = q.trace \o <<"http.request.completed",
                                                   "record_exception",
                                                   "http.request.error">>,
                            !.downstream = [kind |-> "return", value |-> code],
                            !.result = [kind |-> "raise", exc |-> CollectorError]]
                    ELSE [q EXCEPT
                            !.attrs = ("http.status_code" :> code)
                                      @@ ("http.status_class" :> StatusClass(code))
                                      @@ q.attrs,
                            !.status = IF code >= 400 THEN "ERROR" ELSE "OK",
                            !.statuses = <<IF code >= 400 THEN "ERROR" ELSE "OK">>,
                            !.statusMsg = IF code >= 400 THEN <<"HTTP", code>> ELSE "",
                            !.trace = q.trace \o <<"http.request.completed">>,
                            !.metrics = HttpSuccessMetrics(collector, q.method, code,
                                                           q.path),
                            !.downstream = [kind |-> "return", value |-> code],
                            !.result = [kind |-> "return", value |-> code]])]
    /\ UNCHANGED <<provider, tracer, collector, got, lifespan, running, wrapVars, now,
                   seen_sessions, session_start_times, evicted, insertion_order>>

\* lines 1001-1034: call_next raised e (an Exception).
DispatchException(r, e) ==
    /\ CanRun(r)
    /\ req[r].pc = "await_call_next"
    /\ LET q == req[r]
       IN  req' = [req EXCEPT ![r] = DispatchLeave(
                    [q EXCEPT
                       !.status = "ERROR",
                       !.statuses = <<"ERROR">>,
                       !.statusMsg = e.msg,
                       !.trace = q.trace \o <<"record_exception", "http.request.error">>,
                       !.metrics = HttpErrorMetrics(collector, q.method, q.path, e),
                       !.downstream = [kind |-> "raise", exc |-> e],
                       !.result = [kind |-> "raise",
                                   exc |-> IF collector = "raises"
                                           THEN CollectorError ELSE e]])]
    /\ UNCHANGED <<provider, tracer, collector, got, lifespan, running, wrapVars, now,
                   seen_sessions, session_start_times, evicted, insertion_order>>

\* The request is cancelled at the await: CancelledError is no Exception.
DispatchCancel(r) ==
    /\ CanRun(r)
    /\ req[r].pc = "await_call_next"
    /\ req' = [req EXCEPT ![r] = DispatchLeave(
                 [req[r] EXCEPT
                    !.downstream = [kind |-> "raise", exc |-> CancelledError],
                    !.result = [kind |-> "raise", exc |-> CancelledError]])]
    /\ UNCHANGED <<provider, tracer, collector, got, lifespan, running, wrapVars, now,
                   seen_sessions, session_start_times, evicted, insertion_order>>

\* The baggage of one process-wide context in the place of a context per task.
ContextBaggage_process_wide(r, reqs) ==
    IF \E q \in DOMAIN reqs : reqs[q].baggage # NoBaggage
    THEN reqs[CHOOSE q \in DOMAIN reqs : reqs[q].baggage # NoBaggage].baggage
    ELSE NoBaggage

\* baggage.get_baggage("mcp.session.id") as read from the downstream chain of
\* request r.  The context is task-local: context.attach of line 936 changes
\* the context of the task dispatch runs in, and what call_next awaits runs
\* with that context.
ContextBaggage(r, reqs) == reqs[r].baggage

\* The downstream chain of request r calls the callable of slot s.
HandlerCallUnder(s, r) ==
    /\ req[r].pc = "await_call_next"
    /\ CallEnter(s, [nargs |-> 1, nkwargs |-> 0, ctx |-> NoCtx,
                     baggage |-> ContextBaggage(r, req), task |-> r])

\* The downstream chain of request r calls the callable of slot s with
\* these arguments.
HandlerCallWith(s, r, args) ==
    /\ req[r].pc = "await_call_next"
    /\ CallEnter(s, [nargs |-> args.nargs, nkwargs |-> args.nkwargs,
                     ctx |-> args.ctx,
                     baggage |-> ContextBaggage(r, req), task |-> r])

\* A call made by the downstream chain of request r has not come back.
InFlightUnder(r) ==
    \E s \in Slots : /\ inv[s].call.task = r
                     /\ inv[s].pc \in {"in_handler", "suspended"}

\* time.time() moves on.
Tick ==
    /\ running = NoLoop
    /\ now < MaxTime
    /\ now' = now + 1
    /\ UNCHANGED <<provider, tracer, collector, got, lifespan, running, wrapVars,
                   seen_sessions, session_start_times, evicted, insertion_order, req>>

(***************************************************************************)
(* Specifications.                                                         *)
(***************************************************************************)
EmptyStarts == [x \in {} |-> 0]

\* The state after the module is imported, with the metrics collector as coll.
InitWith(coll) ==
    /\ provider = "None"
    /\ tracer = "None"
    /\ collector = coll
    /\ lifespan = IdleLifespan
    /\ running = NoLoop
    /\ comp = [s \in Slots |-> NoComp]
    /\ inv = [s \in Slots |-> IdleInv]
    /\ now = 0
    /\ seen_sessions = {}
    /\ session_start_times = EmptyStarts
    /\ evicted = {}
    /\ insertion_order = <<>>
    /\ req = [r \in Requests |-> IdleReq]
    /\ got = <<>>

\* golf.metrics is installed and works, or is not installed.
Init == \E coll \in {"available", "missing"} : InitWith(coll)

\* The calls the model makes of a wrapped callable.
Calls == { [nargs |-> 1, nkwargs |-> 0, ctx |-> NoCtx, baggage |-> NoBaggage,
            task |-> 0] }

\* One environment with tracing enabled and one with tracing disabled.
WrapConfigs == { cfg \in Configs : ~cfg.endpoint /\ ~cfg.golf_api_key }

\* Components are registered and called while the provider comes and goes.
NextWrap ==
    \/ \E cfg \in WrapConfigs : InitTelemetry(cfg)
    \/ Shutdown
    \/ LifespanExit("exception")
    \/ \E s \in Slots, h \in Handlers : Instrument(s, h)
    \/ \E s \in Slots, call \in Calls : CallEnter(s, call)
    \/ \E s \in Slots : HandlerSuspend(s)
    \/ \E s \in Slots : HandlerResume(s)
    \/ \E s \in Slots, outcome \in Outcomes : CallExit(s, outcome)
    \/ \E s \in Slots : CallCancel(s)

SpecWrap == Init /\ [][NextWrap]_vars

\* HTTP requests pass through the middleware: every session id input, one
\* response, one downstream failure, no content-length header.
NextSession ==
    \/ \E r \in Requests, method \in HttpMethods, path \in HttpPaths,
          query \in ParamValues, header \in ParamValues :
            DispatchStart(r, method, path, query, header)
    \/ \E r \in Requests : DispatchCapCheck(r)
    \/ \E r \in Requests : DispatchOpenSpan(r, NoneStr)
    \/ \E r \in Requests : DispatchResponse(r, 200)
    \/ \E r \in Requests : DispatchException(r, LookupError)
    \/ \E r \in Requests : DispatchCancel(r)
    \/ Tick

SpecSession == Init /\ [][NextSession]_vars

\* The session ids of the requests whose downstream chains call components.
RequestSessionIds == {NoneStr, "s1", "s2"}

\* One result and one failure of a handler.
SomeOutcomes == { [kind |-> "return",
                   value |-> [cls |-> "str", len |-> 2, keys |-> <<>>]],
                  [kind |-> "raise", exc |-> LookupError] }

\* The lifespan in its body, entered with the console exporter and nothing
\* failing: tracing is enabled and the middleware is attached.
ServingLifespan ==
    [IdleLifespan EXCEPT
        !.pc = "body",
        !.enabled = TRUE,
        !.trace = init_telemetry(NoConfig, "none", "None").steps
                  \o MiddlewareSetup("none") \o <<"yield">>]

\* The state in which the middleware serves requests, with the metrics
\* collector as coll.
InitServingWith(coll) ==
    /\ provider = "provider"
    /\ tracer = "None"
    /\ collector = coll
    /\ lifespan = ServingLifespan
    /\ running = NoLoop
    /\ comp = [s \in Slots |-> NoComp]
    /\ inv = [s \in Slots |-> IdleInv]
    /\ now = 0
    /\ seen_sessions = {}
    /\ session_start_times = EmptyStarts
    /\ evicted = {}
    /\ insertion_order = <<>>
    /\ req = [r \in Requests |-> IdleReq]
    /\ got = <<>>

InitServing == \E coll \in {"available", "missing"} : InitServingWith(coll)

\* What the downstream chain of a request does once its calls are over.
DownstreamEnds(r) ==
    /\ ~InFlightUnder(r)
    /\ \/ DispatchResponse(r, 200)
       \/ DispatchException(r, LookupError)
       \/ DispatchCancel(r)

\* Requests pass through the middleware and their downstream chains call
\* components registered with tracing enabled; requests and calls end in
\* every way, cancellation and a content-length int() rejects included.
\* Each request slot serves one request and each component slot is
\* registered once and called once.
NextRequest ==
    \/ \E s \in Slots, h \in Handlers :
            comp[s].callable = "none" /\ Instrument(s, h)
    \/ \E r \in Requests, method \in HttpMethods, path \in HttpPaths,
          query \in RequestSessionIds :
            req[r].pc = "idle" /\ DispatchStart(r, method, path, query, NoneStr)
    \/ \E r \in Requests : DispatchCapCheck(r)
    \/ \E r \in Requests, content_length \in {NoneStr, "abc"} :
            DispatchOpenSpan(r, content_length)
    \/ \E r \in Requests : DownstreamEnds(r)
    \/ \E s \in Slots, r \in Requests :
            inv[s].pc = "idle" /\ HandlerCallUnder(s, r)
    \/ \E s \in Slots : HandlerSuspend(s)
    \/ \E s \in Slots : HandlerResume(s)
    \/ \E s \in Slots, outcome \in SomeOutcomes : CallExit(s, outcome)
    \/ \E s \in Slots : CallCancel(s)

SpecRequest == InitServing /\ [][NextRequest]_vars

FirstSlot == CHOOSE s \in Slots : \A t \in Slots : s <= t

\* The keys of the mappings a tool returns: short ones, one of KeyLimit
\* characters and one of KeyLimit + 1.
KeyPool == << <<"a">>, <<"b">>, [i \in 1..(KeyLimit + 1) |-> "x"],
              [i \in 1..KeyLimit |-> "y"], <<"c">>, <<"d">>, <<"e">> >>

Reverse(seq) == [i \in 1..Len(seq) |-> seq[Len(seq) + 1 - i]]

\* A dict with these keys, in this order; every value is the text "#".
Mapping(keys) == [cls |-> "dict", len |-> Len(keys), keys |-> keys,
                  values |-> [i \in 1..Len(keys) |-> <<"#">>]]

\* Mappings of 0 to SampleLimit + 2 entries, in the order of KeyPool and in
\* the reverse order.
Mappings ==
    { Mapping(SubSeq(pool, i, j)) :
        pool \in {KeyPool, Reverse(KeyPool)},
        i \in 1..Len(KeyPool), j \in 0..Len(KeyPool) }

\* One result for every way through the summary of a tool result: None, the
\* scalars, a list, a sized value that is neither list nor dict, and an
\* object without a length.
ToolResults ==
    { [cls |-> "NoneType", len |-> 0, keys |-> <<>>],
      [cls |-> "str", len |-> 2, keys |-> <<>>],
      [cls |-> "int", len |-> 0, keys |-> <<>>],
      [cls |-> "float", len |-> 0, keys |-> <<>>],
      [cls |-> "bool", len |-> 0, keys |-> <<>>],
      [cls |-> "list", len |-> 3, keys |-> <<>>],
      [cls |-> "tuple", len |-> 2, keys |-> <<>>],
      [cls |-> "bytes", len |-> 4, keys |-> <<>>],
      [cls |-> "object", len |-> 0, keys |-> <<>>] }

\* A tool is registered with tracing enabled, called, and returns a mapping
\* or one of ToolResults.
NextSummary ==
    \/ \E cfg \in WrapConfigs : InitTelemetry(cfg)
    \/ \E h \in Handlers : h.kind = "tool" /\ Instrument(FirstSlot, h)
    \/ \E call \in Calls : CallEnter(FirstSlot, call)
    \/ \E m \in Mappings : CallExit(FirstSlot, [kind |-> "return", value |-> m])
    \/ \E v \in ToolResults : CallExit(FirstSlot, [kind |-> "return", value |-> v])

SpecSummary == Init /\ [][NextSummary]_vars

\* The lifespan is entered in every environment, with every failure of the
\* backend setup and of the middleware setup, and left in both ways, while a
\* component is registered and called in one slot.
NextLifespan ==
    \/ \E cfg \in Configs, fault \in InitFaults, setupFault \in SetupFaults :
            LifespanEnter(cfg, fault, setupFault)
    \/ \E how \in ExitKinds : LifespanExit(how)
    \/ \E h \in Handlers : Instrument(FirstSlot, h)
    \/ \E call \in Calls : CallEnter(FirstSlot, call)
    \/ \E outcome \in SomeOutcomes : CallExit(FirstSlot, outcome)

SpecLifespan == Init /\ [][NextLifespan]_vars

\* The methods, paths and status codes of the requests of SpecHttp.  A path
\* is request.url.path, the target of the request line up to its query: in
\* origin form it begins with "/"; "*" is the asterisk form of OPTIONS; it is
\* empty when the target has no path (a target of "?x", which a server that
\* takes any target hands on).  Paths with several of the substrings the
\* operation type is decided by, in both orders; paths with a "?".
RequestMethods == {"GET", "POST", "DELETE"}
RequestPaths ==
    { <<"/">>,
      <<"/", "m", "c", "p">>,
      <<"/", "s", "s", "e">>,
      <<"/", "a", "u", "t", "h">>,
      <<"/", "s", "s", "e", "/", "m", "c", "p">>,
      <<"/", "a", "u", "t", "h", "/", "s", "s", "e">>,
      <<"/", "a", "u", "t", "h", "/", "m", "c", "p", "/", "s", "s", "e">>,
      <<"/", "m", "c", "p", "/">>,
      <<"/", "/">>,
      <<"/", "h", "e", "a", "l", "t", "h">>,
      <<"/", "?", "x">>,
      <<"/", "m", "c", "p", "?", "/", "s", "s", "e">>,
      <<"*">>,
      <<"?", "x">>,
      <<>> }
ResponseCodes == {200, 302, 399, 400, 404, 500}

FirstRequest == CHOOSE r \in Requests : \A q \in Requests : r <= q

\* One request after the other passes through the middleware, with every
\* method, path, response code and failure of the downstream chain.
NextHttp ==
    \/ \E method \in RequestMethods, path \in RequestPaths,
          query \in {NoneStr, "s1"} :
            DispatchStart(FirstRequest, method, path, query, NoneStr)
    \/ DispatchCapCheck(FirstRequest)
    \/ \E content_length \in {NoneStr, "12"} :
            DispatchOpenSpan(FirstRequest, content_length)
    \/ \E code \in ResponseCodes : DispatchResponse(FirstRequest, code)
    \/ \E e \in Exceptions : DispatchException(FirstRequest, e)
    \/ DispatchCancel(FirstRequest)

SpecHttp == InitServing /\ [][NextHttp]_vars

\* The lifespan is entered in every environment, with every failure of the
\* backend setup, and left; components are registered; the host calls
\* get_tracer() in between.
NextTracer ==
    \/ \E cfg \in Configs, fault \in InitFaults : LifespanEnter(cfg, fault, "none")
    \/ \E how \in ExitKinds : LifespanExit(how)
    \/ \E h \in Handlers : Instrument(FirstSlot, h)
    \/ GetTracer

SpecTracer == Init /\ [][NextTracer]_vars

\* The fields a ctx object may have: the five of ctx_attrs and one more.
CtxFieldNames == Range(ctx_attrs) \cup {"token"}

\* The value a field has when it is not None.
CtxFieldValue(f) ==
    CASE f = "request_id" -> RawValue(42, "42")
      [] f = "session_id" -> RawValue("c9", "c9")
      [] f = "client_id" -> RawValue("cli", "cli")
      [] f = "user_id" -> RawValue(7, "7")
      [] f = "tenant_id" -> RawValue("t1", "t1")
      [] f = "token" -> RawValue("secret", "secret")

\* Every ctx object: each field is missing, None or set.
CtxObjects ==
    { CtxObject([f \in has |-> IF f \in null THEN NoneValue ELSE CtxFieldValue(f)]) :
        has \in SUBSET CtxFieldNames, null \in SUBSET CtxFieldNames }

\* The arguments of a call: positional ones, and keyword ones with or
\* without ctx among them.
CtxCalls ==
    { [nargs |-> n, nkwargs |-> k, ctx |-> NoCtx] : n \in {0, 2}, k \in {0, 1} }
    \cup { [nargs |-> 1, nkwargs |-> 1, ctx |-> c] : c \in CtxObjects }
    \cup { [nargs |-> 0, nkwargs |-> 2, ctx |-> c] :
              c \in { CtxObject([f \in has |-> CtxFieldValue(f)]) :
                        has \in { {}, {"session_id"}, {"request_id", "token"} } } }

\* A request with or without a session id passes through the middleware and
\* its downstream chain calls a component, registered with tracing enabled,
\* with every kind of ctx argument.
NextCtx ==
    \/ \E h \in Handlers :
            comp[FirstSlot].callable = "none" /\ Instrument(FirstSlot, h)
    \/ \E path \in HttpPaths, query \in {NoneStr, "s1"} :
            /\ req[FirstRequest].pc = "idle"
            /\ DispatchStart(FirstRequest, "GET", path, query, NoneStr)
    \/ DispatchCapCheck(FirstRequest)
    \/ DispatchOpenSpan(FirstRequest, NoneStr)
    \/ DownstreamEnds(FirstRequest)
    \/ \E args \in CtxCalls :
            /\ inv[FirstSlot].pc = "idle"
            /\ HandlerCallWith(FirstSlot, FirstRequest, args)
    \/ \E outcome \in SomeOutcomes : CallExit(FirstSlot, outcome)

SpecCtx == InitServing /\ [][NextCtx]_vars

\* Values a statement of the result summary raises for, and one value of
\* each kind it does not.
FaultyResults ==
    { [cls |-> "ndarray", len |-> 0, keys |-> <<>>],
      [cls |-> "list", len |-> 1, keys |-> <<>>, roles |-> "not str"] }

SummaryOutcomes ==
    { [kind |-> "return", value |-> v] : v \in FaultyResults \cup ResultValues }
    \cup { [kind |-> "raise", exc |-> LookupError] }

\* A call with positional arguments only and one with a keyword argument.
SummaryCalls ==
    { [nargs |-> 2, nkwargs |-> 0, ctx |-> NoCtx, baggage |-> NoBaggage, task |-> 0],
      [nargs |-> 0, nkwargs |-> 1, ctx |-> NoCtx, baggage |-> NoBaggage, task |-> 0] }

\* Components of every kind are registered with tracing enabled and called;
\* they return values the summary of their wrapper fails for and values it
\* does not.
NextFaultySummary ==
    \/ \E cfg \in WrapConfigs : InitTelemetry(cfg)
    \/ \E s \in Slots, h \in Handlers : Instrument(s, h)
    \/ \E s \in Slots, call \in SummaryCalls : CallEnter(s, call)
    \/ \E s \in Slots, outcome \in SummaryOutcomes : CallExit(s, outcome)

SpecFaultySummary == Init /\ [][NextFaultySummary]_vars

\* golf.metrics is not installed, or is installed and its calls raise.
InitCollectorFails == \E coll \in {"missing", "raises"} : InitServingWith(coll)

\* The same requests and calls, with a metrics collector that is not there or
\* fails.
SpecCollectorFails == InitCollectorFails /\ [][NextRequest]_vars


(***************************************************************************)
(* Properties of the wrappers (checked under SpecWrap).                    *)
(***************************************************************************)
\* The events of the span of call i, in order.
SpanEvents(i) ==
    SelectSeq(i.trace, LAMBDA e : e \in StartedEvents \cup CompletedEvents \cup ErrorEvents)

Count(seq, Test(_)) == Len(SelectSeq(seq, Test))

IsSuccessCount(m) == m[1] = "increment_tool_execution" /\ m[3] = "success"
IsErrorCount(m) == m[1] = "increment_error"

\* The calls that went through a wrapper and are over.
FinishedWrapped(s) == IsWrapper(comp[s]) /\ inv[s].pc = "done"

\* C1: a handler handed to instrument_tool, instrument_resource or
\* instrument_prompt while _provider is None comes back as it is (the callable
\* kept is func itself), no tracer is obtained and _tracer is left alone.
C1_DisabledPassThrough ==
    [][ \A s \in Slots :
          (provider = "None" /\ comp'[s] # comp[s])
             => /\ comp'[s].callable = "func"
                /\ comp'[s].tracer = "not obtained"
                /\ tracer' = tracer ]_vars

\* C1 witness: a coroutine handler registered while tracing was disabled has
\* been called through what instrument_* returned, which was the handler itself.
C1_Witness ==
    \E s \in Slots : /\ comp[s].callable = "func"
                     /\ comp[s].func.isCoroutine
                     /\ inv[s].pc = "done"
                     /\ inv[s].trace = <<"handler_call", "handler_exit">>

\* C2, as the spec states it: every call of a wrapper of any kind in which the
\* handler returns leaves a span with one started event followed by one
\* completed event and status OK, and reports one success count to the
\* metrics collector (here: when the collector is installed).
C2_SuccessContract ==
    \A s \in Slots :
       (FinishedWrapped(s) /\ inv[s].result.kind = "return" /\ collector = "available")
          => /\ SpanEvents(inv[s]) = <<StartedEvent(comp[s].func.kind),
                                       CompletedEvent(comp[s].func.kind)>>
             /\ inv[s].status = "OK"
             /\ Count(inv[s].metrics, IsSuccessCount) = 1

\* C3, as the spec states it: every call of a wrapper of any kind in which the
\* handler raises e leaves a span with status ERROR and message str(e), an error
\* event with e's type and message, reports one error count to the metrics
\* collector (here: when the collector is installed), and the caller gets e.
C3_ErrorContract ==
    \A s \in Slots :
       (/\ FinishedWrapped(s)
        /\ inv[s].result.kind = "raise"
        /\ inv[s].result.exc \in Exceptions
        /\ collector = "available")
          => /\ inv[s].status = "ERROR"
             /\ inv[s].statusMsg = inv[s].result.exc.msg
             /\ Count(inv[s].trace, LAMBDA e : e \in ErrorEvents) = 1
             /\ inv[s].errorAttrs = ("error.type" :> inv[s].result.exc.type)
                                    @@ ("error.message" :> inv[s].result.exc.msg)
             /\ Count(inv[s].metrics, IsErrorCount) = 1

\* The place of each step of a wrapped call in the order the spec gives.
Rank(e) ==
    CASE e = "span_open" -> 1
      [] e \in StartedEvents -> 2
      [] e = "handler_call" -> 3
      [] e = "handler_exit" -> 4
      [] e = "record_exception" -> 5
      [] e \in CompletedEvents \cup ErrorEvents -> 6
      [] e = "span_end" -> 7

InOrder(trace) ==
    \A a, b \in 1..Len(trace) : a < b => Rank(trace[a]) < Rank(trace[b])

Steps(trace) == { Rank(trace[a]) : a \in 1..Len(trace) }

\* C4: in each call of a wrapper, whatever the other calls in flight do, the
\* span is opened, then the started event is added, then the handler runs,
\* then the completed or the error event is added, then the span is closed:
\* each step at most once and in this order; while the handler runs the span
\* is open with its started event; a call whose handler returned or raised an
\* Exception has taken every step, with one completed or error event.
C4_InvocationOrder ==
    \A s \in Slots :
       IsWrapper(comp[s]) /\ inv[s].pc # "idle" =>
          /\ InOrder(inv[s].trace)
          /\ inv[s].pc \in {"in_handler", "suspended"} => Steps(inv[s].trace) = {1, 2, 3}
          /\ inv[s].pc = "done" => {1, 2, 3, 4, 7} \subseteq Steps(inv[s].trace)
          /\ (inv[s].pc = "done" /\ inv[s].result.kind = "return")
                => /\ Steps(inv[s].trace) = {1, 2, 3, 4, 6, 7}
                   /\ Count(inv[s].trace, LAMBDA e : e \in CompletedEvents) = 1
          /\ (inv[s].pc = "done" /\ inv[s].result.kind = "raise"
                /\ inv[s].result.exc \in Exceptions)
                => /\ Steps(inv[s].trace) = {1, 2, 3, 4, 5, 6, 7}
                   /\ Count(inv[s].trace, LAMBDA e : e \in ErrorEvents) = 1

\* C4 witness: a wrapped call has run from its start to its end while another
\* wrapped call was suspended in its handler.
C4_Witness ==
    \E s, t \in Slots :
       /\ s # t
       /\ IsWrapper(comp[s]) /\ inv[s].pc = "suspended"
       /\ IsWrapper(comp[t]) /\ inv[t].pc = "done"
       /\ inv[t].result.kind = "return"
       /\ Len(inv[t].trace) = 6

\* Slot s opens a span in this step.
OpensSpan(s) ==
    /\ inv[s].pc \in {"idle", "done"}
    /\ inv'[s].pc = "in_handler"
    /\ Count(inv'[s].trace, LAMBDA e : e = "span_open") = 1

\* C15, as the spec states it: while _provider is None (never initialized,
\* initialization returned None, or after the shutdown of the lifespan) no
\* call of an instrumented callable opens a span with the real tracer: a
\* wrapper made while tracing was enabled goes through the no-op tracer.
C15_DisabledNoRealSpan ==
    [][ \A s \in Slots :
          (provider = "None" /\ OpensSpan(s))
             => inv'[s].spanTracer = "noop" ]_vars

\* attrs without the sync / async flag
WithoutAsyncFlag(attrs) ==
    [k \in DOMAIN attrs \ {"mcp.execution.async"} |-> attrs[k]]

LastOf(seq, n) == { seq[i] : i \in (Len(seq) - n + 1)..Len(seq) }

\* What reaches the collector when `call` is reported.
Reported(call) == IF collector = "available" THEN <<call>> ELSE <<>>

\* The registry holds more ids than the cap allows.
AboveCap == Cardinality(seen_sessions) > SessionCap

\* Request r starts its dispatch in this step.
Starts(r) ==
    /\ req[r].pc \in {"idle", "done"}
    /\ req'[r].pc \in {"cap_check", "open_span"}

\* C5, as the spec states it: the compaction that follows the insertion that
\* pushed the registry over the cap leaves exactly the SessionKeep most
\* recently inserted ids in the registry.
C5_KeepsMostRecent ==
    [][ AboveCap
          => seen_sessions' = LastOf(insertion_order, SessionKeep) ]_vars

\* C6: a request that carries an id a compaction has dropped is a new
\* session: the id is in the registry again with now as its start time, what
\* is reported is the new-session count and no duration; and an id that was
\* dropped is out of the registry until such a request.
C6_EvictedIsNew ==
    /\ \A x \in evicted : x \notin seen_sessions
    /\ \A r \in Requests :
         (req[r].pc = "cap_check" /\ req[r].wasEvicted)
            => /\ req[r].obs.event = "new"
               /\ req[r].sid \in seen_sessions
               /\ req[r].sid \in DOMAIN session_start_times
               /\ session_start_times[req[r].sid] = now
               /\ req[r].obs.metrics = Reported(<<"increment_session">>)

\* C6 witness: a request has just been looked up whose id had been dropped
\* by a compaction at an earlier time.
C6_Witness ==
    \E r \in Requests :
       /\ req[r].pc = "cap_check"
       /\ req[r].wasEvicted
       /\ collector = "available"
       /\ now > 0

\* C7: the registry is over the cap only while the request that made the
\* insertion holds the loop, between its insertion and its cap check; it is
\* never more than one over; and the step taken from there leaves exactly
\* SessionKeep ids.
C7_RegistryBounded ==
    /\ [](AboveCap
            => \E r \in Requests : /\ req[r].pc = "cap_check"
                                   /\ running = <<"req", r>>)
    /\ [](Cardinality(seen_sessions) <= SessionCap + 1)
    /\ [][ AboveCap
             => Cardinality(seen_sessions') = SessionKeep ]_vars

\* C7 witness: a compaction has just run, in the step of a request whose own
\* id it dropped.
C7_Witness ==
    \E r \in Requests :
       /\ req[r].pc = "open_span"
       /\ req[r].sid \in evicted
       /\ Cardinality(seen_sessions) = SessionKeep

\* C8: a request that brings no session id (no non-empty session_id
\* parameter, no non-empty x-session-id header) changes neither the registry
\* nor the start times in any of its steps, goes past the lookup and the cap
\* check, reports no session metric and puts nothing into the baggage.
C8_NoSessionNoEffect ==
    /\ [][ \A r \in Requests :
             (req'[r] # req[r] /\ ~req'[r].carried)
                => /\ seen_sessions' = seen_sessions
                   /\ session_start_times' = session_start_times
                   /\ req'[r].pc # "cap_check" ]_vars
    /\ [](\A r \in Requests :
            ~req[r].carried
               => /\ req[r].obs = NoObservation
                  /\ req[r].baggage = NoBaggage
                  /\ ~req[r].token
                  /\ "mcp.session.id" \notin DOMAIN req[r].attrs
                  /\ \A i \in 1..Len(req[r].trace) : req[r].trace[i] # "detach")

\* C8 witness: a request with an empty session id waits for call_next while
\* the registry holds ids.
C8_Witness ==
    \E r \in Requests :
       /\ req[r].pc = "await_call_next"
       /\ ~req[r].carried
       /\ req[r].sid = ""
       /\ seen_sessions # {}

\* C9: the first request that carries an id puts the id into the registry
\* with now as its start time and reports one new-session count and nothing
\* else; a later request that carries it, while it is in the registry, leaves
\* the registry and the start times as they are and reports one duration,
\* now minus the start time, and nothing else.  (Nothing is reported when no
\* collector is installed.)
C9_NewThenContinuing ==
    [][ \A r \in Requests :
          (Starts(r) /\ req'[r].carried)
             => IF req'[r].sid \notin seen_sessions
                THEN /\ seen_sessions' = seen_sessions \cup {req'[r].sid}
                     /\ req'[r].sid \in DOMAIN session_start_times'
                     /\ session_start_times'[req'[r].sid] = now
                     /\ req'[r].obs.metrics = Reported(<<"increment_session">>)
                ELSE /\ seen_sessions' = seen_sessions
                     /\ session_start_times' = session_start_times
                     /\ req'[r].sid \in DOMAIN session_start_times
                     /\ req'[r].obs.metrics =
                          Reported(<<"record_session_duration",
                                     now - session_start_times[req'[r].sid]>>) ]_vars

\* C9 witness: a request carrying an id seen at an earlier time has reported
\* a duration greater than 0.
C9_Witness ==
    \E r \in Requests :
       /\ req[r].pc = "cap_check"
       /\ req[r].obs.event = "continuing"
       /\ req[r].obs.duration > 0
       /\ req[r].obs.metrics = << <<"record_session_duration", req[r].obs.duration>> >>

\* Request r, which carries an id that is in the registry, takes a step of
\* its session tracking: the lookup or the cap check after it.
Reobserves(r) ==
    \/ Starts(r) /\ req'[r].carried /\ req'[r].sid \in seen_sessions
    \/ req[r].pc = "cap_check" /\ req[r].obs.event = "continuing"

\* The place of id x in the order of insertion.
InsertedAt(x) == CHOOSE i \in 1..Len(insertion_order) : insertion_order[i] = x

\* The session tracking of a request that carries an id of the registry
\* changes nothing: not the registry, not a start time, not the order of
\* insertion.
C30_ReobservationFrame ==
    [][ \A r \in Requests :
          Reobserves(r)
             => /\ seen_sessions' = seen_sessions
                /\ session_start_times' = session_start_times
                /\ insertion_order' = insertion_order ]_vars

\* C30: a request that carries an id of the registry leaves the registry,
\* the start time of the id and the order of eviction as they are; and what
\* a compaction keeps depends on the time of insertion only: every id it
\* drops was inserted before every id it keeps.
C30_SurvivalByInsertionOnly ==
    [][ /\ \A r \in Requests :
             Reobserves(r)
                => /\ seen_sessions' = seen_sessions
                   /\ session_start_times' = session_start_times
                   /\ insertion_order' = insertion_order
        /\ \A x \in seen_sessions \ seen_sessions', y \in seen_sessions' :
             y \in seen_sessions => InsertedAt(x) < InsertedAt(y) ]_vars

\* A request has observed again an id inserted at an earlier time, with
\* another id in the registry.
C30_WitnessReobserved ==
    \E r \in Requests :
       /\ req[r].pc = "cap_check"
       /\ req[r].obs.event = "continuing"
       /\ req[r].obs.duration > 0
       /\ Cardinality(seen_sessions) = SessionCap
       /\ session_start_times[req[r].sid] < now

\* C31: after every step of the session tracking, the ids that have a start
\* time are the ids of the registry: an id found in the registry has a
\* start time, so a request classified as continuing has its duration
\* reported (to the collector, when one is installed), and no start time
\* is kept for an id that is not in the registry.
C31_StartTimesMatchRegistry ==
    /\ DOMAIN session_start_times = seen_sessions
    /\ \A r \in Requests :
         (req[r].pc = "cap_check" /\ req[r].obs.event = "continuing")
            => /\ req[r].sid \in DOMAIN session_start_times
               /\ req[r].obs.duration = now - session_start_times[req[r].sid]
               /\ req[r].obs.metrics =
                    Reported(<<"record_session_duration", req[r].obs.duration>>)

\* C31 witness: a compaction has dropped an id, whose start time is gone
\* with it, and a request carrying an id that survived has been classified
\* as continuing and has reported a duration.
C31_Witness ==
    /\ evicted # {}
    /\ \A x \in evicted : x \notin DOMAIN session_start_times
    /\ collector = "available"
    /\ \E r \in Requests :
         /\ req[r].pc = "cap_check"
         /\ req[r].obs.event = "continuing"
         /\ Len(req[r].obs.metrics) = 1

\* C10: from the insertion of a request to the end of its cap check no other
\* request takes a step (so none touches the registry), at most one request is
\* in that stretch, and whenever every request is at an await or outside
\* dispatch the registry is within the cap.
C10_SessionStepAtomic ==
    /\ [][ \A r \in Requests :
             req[r].pc = "cap_check"
                => /\ req'[r].pc = "open_span"
                   /\ \A q \in Requests \ {r} : req'[q] = req[q] ]_vars
    /\ [](Cardinality({ r \in Requests : req[r].pc \in {"cap_check", "open_span"} }) <= 1)
    /\ []((\A r \in Requests : req[r].pc \in {"idle", "await_call_next", "done"})
             => ~AboveCap)

\* C10 witness: a request is between its insertion and its cap check, with
\* the registry over the cap, while another request waits for call_next.
C10_Witness ==
    \E r, q \in Requests :
       /\ r # q
       /\ req[r].pc = "cap_check"
       /\ AboveCap
       /\ req[q].pc = "await_call_next"
       /\ req[q].carried


(***************************************************************************)
(* Properties of requests and the calls made under them (checked under     *)
(* SpecRequest).                                                           *)
(***************************************************************************)
\* C11: a wrapped call made by the downstream chain of a request reads from
\* the baggage the session id of that request or nothing, whatever the other
\* requests in flight have put into the baggage: the mcp.session.id attribute
\* of its span, when set, is the session id of its own request, and the
\* baggage of a request's context holds its own session id or nothing.
C11_BaggageIsolated ==
    /\ \A r \in Requests : req[r].baggage \in {NoBaggage, req[r].sid}
    /\ \A s \in Slots, r \in Requests :
          (IsWrapper(comp[s]) /\ inv[s].pc # "idle" /\ inv[s].call.task = r)
             => /\ inv[s].call.baggage \in {NoBaggage, req[r].sid}
                /\ "mcp.session.id" \in DOMAIN inv[s].attrs
                      => inv[s].attrs["mcp.session.id"] = req[r].sid
                /\ \A q \in Requests \ {r} :
                      (req[q].baggage # NoBaggage /\ req[q].sid # req[r].sid)
                         => inv[s].call.baggage # req[q].baggage

\* C11 witness: two requests with different session ids are in flight, both
\* with their id in the baggage, and a wrapped call under each has read the
\* id of its own request.
C11_Witness ==
    \E r, q \in Requests, s, t \in Slots :
       /\ r # q /\ s # t
       /\ req[r].pc = "await_call_next" /\ req[q].pc = "await_call_next"
       /\ req[r].baggage = "s1" /\ req[q].baggage = "s2"
       /\ IsWrapper(comp[s]) /\ inv[s].pc = "suspended" /\ inv[s].call.task = r
       /\ IsWrapper(comp[t]) /\ inv[t].pc = "in_handler" /\ inv[t].call.task = q
       /\ inv[s].attrs["mcp.session.id"] = "s1"
       /\ inv[t].attrs["mcp.session.id"] = "s2"

\* C12, as the spec states it: a request that has left dispatch, on whatever
\* path, has no baggage context attached any more (every attach of line 936 is
\* followed by the detach of line 1037 before dispatch exits).
C12_DetachOnEveryExit ==
    \A r \in Requests : req[r].pc = "done" => ~req[r].token

IsSpanOpen(e) == e = "span_open"
IsSpanEnd(e) == e = "span_end"

\* The span of a trace is opened once, and closed once, as the last step, if
\* `over`, and not closed otherwise.
OneSpan(trace, over) ==
    /\ Count(trace, IsSpanOpen) = 1
    /\ Count(trace, IsSpanEnd) = (IF over THEN 1 ELSE 0)
    /\ over => trace[Len(trace)] = "span_end"

\* C13: every call of a wrapper and every request that has reached line 918
\* has opened one span; the span is open while the handler or the downstream
\* chain runs, and once control is back with the caller (the handler or the
\* chain returned, raised, or was cancelled at its await; int() rejected the
\* content-length) the span has been closed once, as the last step.
C13_SpanClosedOnce ==
    /\ \A s \in Slots :
          (IsWrapper(comp[s]) /\ inv[s].pc # "idle")
             => OneSpan(inv[s].trace, inv[s].pc = "done")
    /\ \A r \in Requests :
          (req[r].pc \in {"await_call_next", "done"})
             => OneSpan(req[r].trace, req[r].pc = "done")

\* C13 witness: a wrapped call was cancelled while its handler was suspended,
\* under a request that was cancelled in turn, and both spans are closed.
C13_Witness ==
    \E s \in Slots, r \in Requests :
       /\ IsWrapper(comp[s]) /\ inv[s].pc = "done" /\ inv[s].call.task = r
       /\ inv[s].result = [kind |-> "raise", exc |-> CancelledError]
       /\ req[r].pc = "done"
       /\ req[r].result = [kind |-> "raise", exc |-> CancelledError]
       /\ inv[s].trace[Len(inv[s].trace)] = "span_end"
       /\ req[r].trace[Len(req[r].trace)] = "span_end"

(***************************************************************************)
(* Properties of the result summary (checked under SpecSummary).           *)
(***************************************************************************)
\* A key as it is to be listed: as it is up to 20 characters, its first 20
\* characters and "..." beyond.
Listed(k) ==
    IF Len(k) <= 20 THEN k
    ELSE [i \in 1..23 |-> IF i <= 20 THEN k[i] ELSE "."]

\* The keys as they are to be listed, in their order, with commas between.
RECURSIVE CommaJoined(_)
CommaJoined(keys) ==
    IF Len(keys) = 0 THEN <<>>
    ELSE IF Len(keys) = 1 THEN Listed(keys[1])
    ELSE Listed(keys[1]) \o <<",">> \o CommaJoined(Tail(keys))

\* A call of a tool wrapper is over and the tool returned a mapping.
ReturnedMapping(s) ==
    /\ FinishedWrapped(s)
    /\ comp[s].func.kind = "tool"
    /\ inv[s].outcome.kind = "return"
    /\ inv[s].outcome.value.cls = "dict"

\* C20: when a tool returns a mapping of n entries, the span has
\* mcp.tool.result.count = n and mcp.tool.result.type = "object"; it has
\* mcp.tool.result.sample_keys if and only if 1 <= n <= 5, and then the
\* attribute is the keys of the mapping in their order, joined by commas, a
\* key of more than 20 characters as its first 20 characters and "...", with
\* nothing of any value in it.
C20_MappingSummary ==
    \A s \in Slots :
       ReturnedMapping(s) =>
          LET v == inv[s].outcome.value
              n == Len(v.keys)
              a == inv[s].attrs
          IN  /\ a["mcp.tool.result.count"] = n
              /\ a["mcp.tool.result.type"] = "object"
              /\ ("mcp.tool.result.sample_keys" \in DOMAIN a) <=> (1 <= n /\ n <= 5)
              /\ "mcp.tool.result.sample_keys" \in DOMAIN a
                    => /\ a["mcp.tool.result.sample_keys"] = CommaJoined(v.keys)
                       /\ \A i \in 1..Len(a["mcp.tool.result.sample_keys"]) :
                             a["mcp.tool.result.sample_keys"][i] # "#"

\* C20 witness: a tool has returned a mapping of 5 entries, among them a key
\* of 21 characters and a key of 20, and the attribute lists the 5 keys.
C20_Witness ==
    \E s \in Slots :
       /\ ReturnedMapping(s)
       /\ Len(inv[s].outcome.value.keys) = 5
       /\ \E i \in 1..5 : Len(inv[s].outcome.value.keys[i]) = 21
       /\ Len(inv[s].attrs["mcp.tool.result.sample_keys"]) = 23 + 20 + 3 + 4

\* A mapping of more than 5 entries has been summarized.
C20_WitnessLarge ==
    \E s \in Slots :
       /\ ReturnedMapping(s)
       /\ Len(inv[s].outcome.value.keys) = 6
       /\ inv[s].attrs["mcp.tool.result.count"] = 6

\* A call of a tool wrapper is over and the tool returned.
ReturnedTool(s) ==
    /\ FinishedWrapped(s)
    /\ comp[s].func.kind = "tool"
    /\ inv[s].outcome.kind = "return"

\* C21: after every call of a tool wrapper in which the tool returned,
\* whatever the value returned (None, a scalar, a list, a mapping, a sized
\* value, or none of these), the span has the attribute mcp.tool.result.class
\* and it holds the name of the type of the value.
C21_ClassAlwaysAttached ==
    \A s \in Slots :
       ReturnedTool(s) =>
          /\ "mcp.tool.result.class" \in DOMAIN inv[s].attrs
          /\ inv[s].attrs["mcp.tool.result.class"] = inv[s].outcome.value.cls

(***************************************************************************)
(* Properties of the HTTP span (checked under SpecHttp).                   *)
(***************************************************************************)
\* Request r has left dispatch and its downstream chain returned a response.
Responded(r) == req[r].pc = "done" /\ req[r].downstream.kind = "return"

\* Request r has left dispatch and its downstream chain raised an Exception.
ChainRaised(r) ==
    /\ req[r].pc = "done"
    /\ req[r].downstream.kind = "raise"
    /\ req[r].downstream.exc \in Exceptions

IsRequestCount(m) == m[1] = "increment_http_request"
IsDuration(m) == m[1] = "record_http_duration"
IsHttpErrorCount(m) == m[1] = "increment_error"

\* C22: for every request whose downstream chain returned a response with
\* status code c, the span status is ERROR if c >= 400 and OK otherwise, the
\* status class is c div 100 followed by "xx", one completed event and no
\* error event is added, and one request count with c and one duration are
\* reported (when the collector is installed); for every request whose chain
\* raised e, the span is ERROR with e recorded, one error event and no
\* completed event is added, one request count with status 500 and one error
\* count with e's type are reported, and the caller gets e.
C22_ResponseAndExceptionPaths ==
    \A r \in Requests :
       /\ Responded(r) =>
            LET q == req[r]
                c == q.downstream.value
            IN  /\ (q.status = "ERROR") <=> (c >= 400)
                /\ (q.status = "OK") <=> (c < 400)
                /\ q.attrs["http.status_code"] = c
                /\ q.attrs["http.status_class"] = <<c \div 100, "x", "x">>
                /\ Count(q.trace, LAMBDA e : e = "http.request.completed") = 1
                /\ Count(q.trace, LAMBDA e : e = "http.request.error") = 0
                /\ collector = "available" =>
                      /\ Len(q.metrics) = 2
                      /\ Count(q.metrics, IsRequestCount) = 1
                      /\ Count(q.metrics, IsDuration) = 1
                      /\ \A i \in 1..2 : IsRequestCount(q.metrics[i])
                                             => q.metrics[i][3] = c
                /\ q.result = q.downstream
       /\ ChainRaised(r) =>
            LET q == req[r]
                e == q.downstream.exc
            IN  /\ q.status = "ERROR"
                /\ q.statusMsg = e.msg
                /\ Count(q.trace, LAMBDA x : x = "record_exception") = 1
                /\ Count(q.trace, LAMBDA x : x = "http.request.error") = 1
                /\ Count(q.trace, LAMBDA x : x = "http.request.completed") = 0
                /\ collector = "available" =>
                      /\ Len(q.metrics) = 2
                      /\ Count(q.metrics, IsRequestCount) = 1
                      /\ Count(q.metrics, IsHttpErrorCount) = 1
                      /\ \A i \in 1..2 :
                            /\ IsRequestCount(q.metrics[i]) => q.metrics[i][3] = 500
                            /\ IsHttpErrorCount(q.metrics[i])
                                  => q.metrics[i] = <<"increment_error", "http", e.type>>
                /\ q.result = [kind |-> "raise", exc |-> e]

\* C22 witness: a chain has returned 400 with the collector installed; the
\* span is ERROR with class 4xx and the two metrics are reported.
C22_Witness ==
    \E r \in Requests :
       /\ Responded(r)
       /\ req[r].downstream.value = 400
       /\ collector = "available"
       /\ req[r].status = "ERROR"
       /\ req[r].attrs["http.status_class"] = <<4, "x", "x">>
       /\ Len(req[r].metrics) = 2

\* A chain has returned 399: the span is OK with class 3xx.
C22_WitnessBelow ==
    \E r \in Requests :
       /\ Responded(r)
       /\ req[r].downstream.value = 399
       /\ req[r].status = "OK"
       /\ req[r].attrs["http.status_class"] = <<3, "x", "x">>

\* A chain has raised with the collector installed: the span is ERROR and
\* the count with status 500 and the error count are reported.
C22_WitnessRaise ==
    \E r \in Requests :
       /\ ChainRaised(r)
       /\ collector = "available"
       /\ req[r].status = "ERROR"
       /\ Len(req[r].metrics) = 2
       /\ req[r].result = req[r].downstream

(***************************************************************************)
(* Properties of the span attributes (checked under SpecCtx).              *)
(***************************************************************************)
\* The span of a call of a wrapper has been opened.
SpanOpened(s) == IsWrapper(comp[s]) /\ inv[s].pc # "idle"

AllowList == {"request_id", "session_id", "client_id", "user_id", "tenant_id"}

ContextAttribute(f) ==
    CASE f = "request_id" -> "mcp.context.request_id"
      [] f = "session_id" -> "mcp.context.session_id"
      [] f = "client_id" -> "mcp.context.client_id"
      [] f = "user_id" -> "mcp.context.user_id"
      [] f = "tenant_id" -> "mcp.context.tenant_id"

\* The fields of the allow-list the ctx argument has with a value not None.
Exposed(ctx) ==
    IF ~ctx.present THEN {}
    ELSE { f \in AllowList : f \in DOMAIN ctx.fields /\ ~ctx.fields[f].isNone }

\* The attributes a wrapper sets before it calls the handler, but for the
\* fixed ones and the session id of the baggage.
BesideFixed(s) ==
    { k \in DOMAIN WrapperEnter(comp[s].func, inv[s].call, FALSE, "tracer").attrs :
        k \notin DOMAIN FixedAttributes(comp[s].func, inv[s].call, FALSE)
                  \cup {"mcp.session.id"} }

\* C24: in every call of a wrapper, the mcp.context.* attributes of the span
\* are those of request_id, session_id, client_id, user_id, tenant_id that
\* the ctx keyword argument has with a value other than None, each with the
\* str() form of the value; no other field of ctx gives an attribute, and
\* with no ctx there is no mcp.context.* attribute.
C24_ContextAllowList ==
    \A s \in Slots :
       SpanOpened(s) =>
          LET c == inv[s].call.ctx
              a == inv[s].attrs
          IN  /\ \A f \in AllowList :
                    /\ (ContextAttribute(f) \in DOMAIN a) <=> (f \in Exposed(c))
                    /\ f \in Exposed(c) => a[ContextAttribute(f)] = c.fields[f].text
              /\ BesideFixed(s) = { ContextAttribute(f) : f \in Exposed(c) }
              /\ ~c.present => BesideFixed(s) = {}

\* C24 witness: a call with a ctx that has a request id of 42, a session id
\* of None, a token and no tenant id: mcp.context.request_id is "42" and it
\* is the only mcp.context.* attribute.
C24_Witness ==
    \E s \in Slots :
       /\ SpanOpened(s)
       /\ inv[s].call.ctx.present
       /\ DOMAIN inv[s].call.ctx.fields = {"request_id", "session_id", "token"}
       /\ inv[s].call.ctx.fields["session_id"].isNone
       /\ ~inv[s].call.ctx.fields["token"].isNone
       /\ ~inv[s].call.ctx.fields["request_id"].isNone
       /\ inv[s].call.ctx.fields["request_id"].raw = 42
       /\ inv[s].attrs["mcp.context.request_id"] = "42"
       /\ BesideFixed(s) = {"mcp.context.request_id"}

\* C25: the session id of the baggage is written by dispatch only: no step
\* of a call of a wrapper changes the baggage or the attach token of any
\* request, so the baggage is the same before and after the call; the
\* baggage a call reads is the one of the request it runs under; and when
\* that baggage has a session id, the span of the wrapper has it as
\* mcp.session.id, whether the ctx argument is absent, has no session id or
\* has another one.
C25_BaggageReadOnly ==
    /\ [](\A s \in Slots :
            /\ (SpanOpened(s) /\ inv[s].call.baggage # NoBaggage)
                  => /\ "mcp.session.id" \in DOMAIN inv[s].attrs
                     /\ inv[s].attrs["mcp.session.id"] = inv[s].call.baggage
            /\ (SpanOpened(s) /\ inv[s].pc = "in_handler" /\ inv[s].call.task # 0)
                  => inv[s].call.baggage = req[inv[s].call.task].baggage)
    /\ [][ inv' # inv =>
             \A r \in Requests : /\ req'[r].baggage = req[r].baggage
                                  /\ req'[r].token = req[r].token
                                  /\ req'[r].trace = req[r].trace ]_vars

\* C25 witness: a wrapped call made under a request with session id s1 and
\* with a ctx that has no session id has returned; the span has
\* mcp.session.id = s1 and no mcp.context.session_id, and the baggage of the
\* request is still s1.
C25_Witness ==
    \E s \in Slots :
       /\ FinishedWrapped(s)
       /\ inv[s].call.task # 0
       /\ inv[s].call.ctx.present
       /\ "session_id" \notin DOMAIN inv[s].call.ctx.fields
       /\ "request_id" \in DOMAIN inv[s].call.ctx.fields
       /\ req[inv[s].call.task].pc = "await_call_next"
       /\ req[inv[s].call.task].baggage = "s1"
       /\ inv[s].attrs["mcp.session.id"] = "s1"
       /\ "mcp.context.session_id" \notin DOMAIN inv[s].attrs

\* The same with no ctx argument at all.
C25_WitnessNoCtx ==
    \E s \in Slots :
       /\ FinishedWrapped(s)
       /\ inv[s].call.task # 0
       /\ ~inv[s].call.ctx.present
       /\ req[inv[s].call.task].baggage = "s1"
       /\ inv[s].attrs["mcp.session.id"] = "s1"

\* The names of the attributes that hold the declared name and the module
\* of the callable, for each kind of component.
FunctionAttribute(kind) ==
    CASE kind = "tool" -> "mcp.tool.function"
      [] kind = "resource" -> "mcp.resource.function"
      [] kind = "prompt" -> "mcp.prompt.function"

ModuleAttribute(kind) ==
    CASE kind = "tool" -> "mcp.tool.module"
      [] kind = "resource" -> "mcp.resource.module"
      [] kind = "prompt" -> "mcp.prompt.module"

\* C26: the span of every call of a wrapper, of a tool, a resource or a
\* prompt, has the component kind, the component name, the declared name and
\* the module of the callable, the number of positional arguments, the
\* number of keyword arguments, and the flag telling the async wrapper from
\* the sync one.
C26_FixedAttributeSet ==
    \A s \in Slots :
       SpanOpened(s) =>
          LET kind == comp[s].func.kind
              a == inv[s].attrs
          IN  /\ {"mcp.component.type", "mcp.component.name",
                   FunctionAttribute(kind), ModuleAttribute(kind),
                   "mcp.execution.args_count", "mcp.execution.kwargs_count",
                   "mcp.execution.async"} \subseteq DOMAIN a
              /\ a["mcp.component.type"] = kind
              /\ a["mcp.component.name"] = ComponentName(kind)
              /\ a["mcp.execution.args_count"] = inv[s].call.nargs
              /\ a["mcp.execution.kwargs_count"] = inv[s].call.nkwargs
              /\ a["mcp.execution.async"] = comp[s].func.isCoroutine

\* The same for the calls of the tool wrappers only.
C26_ToolsOnly ==
    \A s \in Slots :
       (SpanOpened(s) /\ comp[s].func.kind = "tool") =>
          LET a == inv[s].attrs
          IN  /\ {"mcp.component.type", "mcp.component.name",
                   "mcp.tool.function", "mcp.tool.module",
                   "mcp.execution.args_count", "mcp.execution.kwargs_count",
                   "mcp.execution.async"} \subseteq DOMAIN a
              /\ a["mcp.execution.args_count"] = inv[s].call.nargs
              /\ a["mcp.execution.kwargs_count"] = inv[s].call.nkwargs

\* What the resource and prompt wrappers do set.
C26_OthersButCounts ==
    \A s \in Slots :
       (SpanOpened(s) /\ comp[s].func.kind # "tool") =>
          LET kind == comp[s].func.kind
              a == inv[s].attrs
          IN  /\ {"mcp.component.type", "mcp.component.name",
                   FunctionAttribute(kind), ModuleAttribute(kind),
                   "mcp.execution.async"} \subseteq DOMAIN a
              /\ "mcp.execution.args_count" \notin DOMAIN a
              /\ "mcp.execution.kwargs_count" \notin DOMAIN a

(***************************************************************************)
(* Properties of the outcome of a call (checked under SpecFaultySummary).  *)
(***************************************************************************)
IsHandlerCall(e) == e = "handler_call"

\* C32: in every call of a wrapper the handler is called once, with the
\* positional and keyword arguments the wrapper was called with, and when
\* the handler returns v the caller of the wrapper gets v, also when a
\* statement of the result summary raises.
C32_HandlerOnceResultUnchanged ==
    \A s \in Slots :
       /\ (IsWrapper(comp[s]) /\ inv[s].pc # "idle")
             => /\ Count(inv[s].trace, IsHandlerCall) = 1
                /\ inv[s].passed = [nargs |-> inv[s].call.nargs,
                                    nkwargs |-> inv[s].call.nkwargs,
                                    ctx |-> inv[s].call.ctx]
       /\ (FinishedWrapped(s) /\ inv[s].outcome.kind = "return")
             => inv[s].result = inv[s].outcome

\* The same, but for the calls in which a statement of the summary raises.
C32_WhenSummaryWorks ==
    \A s \in Slots :
       /\ (IsWrapper(comp[s]) /\ inv[s].pc # "idle")
             => /\ Count(inv[s].trace, IsHandlerCall) = 1
                /\ inv[s].passed = [nargs |-> inv[s].call.nargs,
                                    nkwargs |-> inv[s].call.nkwargs,
                                    ctx |-> inv[s].call.ctx]
       /\ (/\ FinishedWrapped(s) /\ inv[s].outcome.kind = "return"
           /\ ~SummaryRaises(comp[s].func.kind, inv[s].outcome.value))
             => inv[s].result = inv[s].outcome

\* A resource has returned a value len() fails for and the caller of the
\* wrapper got TypeError.
C32_WitnessSummaryFailed ==
    \E s \in Slots :
       /\ FinishedWrapped(s)
       /\ comp[s].func.kind = "resource"
       /\ inv[s].outcome = [kind |-> "return",
                            value |-> [cls |-> "ndarray", len |-> 0, keys |-> <<>>]]
       /\ inv[s].result = [kind |-> "raise", exc |-> SummaryError]

IsCompleted(e) == e \in CompletedEvents \cup {"http.request.completed"}
IsError(e) == e \in ErrorEvents \cup {"http.request.error"}

\* set_status(ERROR) was called after set_status(OK).
ErrorAfterOk(statuses) ==
    \E a, b \in DOMAIN statuses :
        a < b /\ statuses[a] = "OK" /\ statuses[b] = "ERROR"

\* The span of x (a call or a request) has a completed event or an error
\* event and not both, and was not given ERROR after OK.
OneOutcome(x) ==
    /\ Count(x.trace, IsCompleted) + Count(x.trace, IsError) = 1
    /\ ~ErrorAfterOk(x.statuses)

\* C33: no span has a completed event and an error event, no span is given
\* status ERROR after status OK, and the span of every finished wrapped call
\* and of every finished HTTP request has exactly one of the two events.
C33_ExactlyOneOutcome ==
    /\ \A s \in Slots :
          /\ ~(Count(inv[s].trace, IsCompleted) > 0 /\ Count(inv[s].trace, IsError) > 0)
          /\ ~ErrorAfterOk(inv[s].statuses)
          /\ FinishedWrapped(s) => OneOutcome(inv[s])
    /\ \A r \in Requests :
          /\ ~(Count(req[r].trace, IsCompleted) > 0 /\ Count(req[r].trace, IsError) > 0)
          /\ ~ErrorAfterOk(req[r].statuses)
          /\ (req[r].pc = "done" /\ req[r].trace # <<>>) => OneOutcome(req[r])

\* The wrapped calls in which no statement of the summary raises record
\* exactly one outcome.
C33_WhenSummaryWorks ==
    \A s \in Slots :
       ( /\ FinishedWrapped(s)
         /\ inv[s].outcome.kind = "return"
              => ~SummaryRaises(comp[s].func.kind, inv[s].outcome.value) )
          => OneOutcome(inv[s])

\* The requests whose downstream chain returned a response or raised an
\* Exception record exactly one outcome (checked under SpecHttp).
C33_HttpOneOutcome ==
    \A r \in Requests :
       /\ (Responded(r) \/ ChainRaised(r)) => OneOutcome(req[r])
       /\ ~(Count(req[r].trace, IsCompleted) > 0 /\ Count(req[r].trace, IsError) > 0)
       /\ ~ErrorAfterOk(req[r].statuses)

\* A tool returned a value len() fails for: its span has the completed event
\* and the error event, and status ERROR set after OK.
C33_WitnessBothEvents ==
    \E s \in Slots :
       /\ FinishedWrapped(s)
       /\ comp[s].func.kind = "tool"
       /\ inv[s].outcome.kind = "return"
       /\ Count(inv[s].trace, IsCompleted) = 1
       /\ Count(inv[s].trace, IsError) = 1
       /\ inv[s].statuses = <<"OK", "ERROR">>

C23_WitnessAfterShutdown ==
    \E i \in 1..Len(got) :
       /\ ~got[i].enabled /\ got[i].initialized
       /\ got[i].before = "tracer"
       /\ got[i].returned = "noop"

\* The rules of the operation type, in their order of priority.
OperationRules ==
    << [sub |-> <<"/", "m", "c", "p">>, type |-> "mcp.request"],
       [sub |-> <<"/", "s", "s", "e">>, type |-> "sse.stream"],
       [sub |-> <<"/", "a", "u", "t", "h">>, type |-> "auth"] >>

\* sub occurs in path.
Occurs(sub, path) ==
    \E i \in 0..(Len(path) - Len(sub)) :
       \A j \in 1..Len(sub) : path[i + j] = sub[j]

\* The type of the first rule that matches, "unknown" when none does.
FirstMatch(path) ==
    LET hits == { i \in 1..Len(OperationRules) : Occurs(OperationRules[i].sub, path) }
    IN  IF hits = {} THEN "unknown"
        ELSE OperationRules[CHOOSE i \in hits : \A j \in hits : i <= j].type

Lowercased(method) ==
    CASE method = "GET" -> "get"
      [] method = "POST" -> "post"
      [] method = "DELETE" -> "delete"

\* The span of request r has been opened.
HttpSpanOpened(r) == req[r].trace # <<>>

\* C27: the name of the span of every request is the operation type, ".",
\* and the method in lower case, the operation type being that of the first
\* rule that matches: path contains "/mcp", mcp.request; else contains
\* "/sse", sse.stream; else contains "/auth", auth; else unknown.
C27_SpanNameByFirstRule ==
    \A r \in Requests :
       HttpSpanOpened(r) =>
          req[r].name = <<FirstMatch(req[r].path), ".", Lowercased(req[r].method)>>

\* C27 witness: a POST to /auth/mcp/sse, which has all three substrings and
\* "/mcp" neither first nor last, is named mcp.request.post.
C27_Witness ==
    \E r \in Requests :
       /\ HttpSpanOpened(r)
       /\ req[r].method = "POST"
       /\ req[r].path = <<"/", "a", "u", "t", "h", "/", "m", "c", "p", "/", "s", "s", "e">>
       /\ req[r].name = <<"mcp.request", ".", "post">>

\* A path with "/sse" after "/auth" is an sse.stream; one with none of the
\* three is unknown.
C27_WitnessSse ==
    \E r \in Requests :
       /\ HttpSpanOpened(r)
       /\ req[r].path = <<"/", "a", "u", "t", "h", "/", "s", "s", "e">>
       /\ req[r].name = <<"sse.stream", ".", "delete">>

C27_WitnessUnknown ==
    \E r \in Requests :
       /\ HttpSpanOpened(r)
       /\ req[r].path = <<"/", "h", "e", "a", "l", "t", "h">>
       /\ req[r].name = <<"unknown", ".", "get">>

\* The path keys of the metrics request r reported.
PathKeys(r) ==
    { req[r].metrics[i][IF req[r].metrics[i][1] = "increment_http_request" THEN 4 ELSE 3] :
        i \in { i \in 1..Len(req[r].metrics) :
                  req[r].metrics[i][1] \in {"increment_http_request",
                                            "record_http_duration"} } }

\* path up to its first "?", the whole of it when it has none.
UpToQuery(path) ==
    IF \E i \in 1..Len(path) : path[i] = "?"
    THEN LET first == CHOOSE i \in 1..Len(path) :
                         path[i] = "?" /\ \A j \in 1..(i - 1) : path[j] # "?"
         IN  [j \in 1..(first - 1) |-> path[j]]
    ELSE path

\* The key the claim gives for a path: the query string removed, then one
\* leading slash removed, then "root" for an empty result.
ExpectedKey(path) ==
    LET p == UpToQuery(path)
        q == IF Len(p) > 0 /\ p[1] = "/" THEN [j \in 1..(Len(p) - 1) |-> p[j + 1]] ELSE p
    IN  IF q = <<>> THEN <<"r", "o", "o", "t">> ELSE q

\* C28: the path key of every HTTP metric, on the response path and on the
\* exception path, is the request path with the query string removed and one
\* leading slash removed, "root" when nothing is left; it is never empty.
C28_MetricPathKey ==
    \A r \in Requests :
       \A k \in PathKeys(r) :
          /\ k = ExpectedKey(req[r].path)
          /\ k # <<>>

\* C28 for the paths that begin with "/".
C28_SlashPaths ==
    \A r \in Requests :
       (req[r].path # <<>> /\ req[r].path[1] = "/") =>
          \A k \in PathKeys(r) :
             /\ k = ExpectedKey(req[r].path)
             /\ k # <<>>

\* A request for "/?x" has been answered and its metrics are keyed by "root".
C28_WitnessRoot ==
    \E r \in Requests :
       /\ Responded(r)
       /\ req[r].path = <<"/", "?", "x">>
       /\ PathKeys(r) = { <<"r", "o", "o", "t">> }

\* A request with an empty path has been answered and its metrics are keyed
\* by the empty string.
C28_WitnessEmptyKey ==
    \E r \in Requests :
       /\ Responded(r)
       /\ req[r].path = <<>>
       /\ PathKeys(r) = { <<>> }

\* The chain of a request for "/" has raised: the key is "root" as well; a
\* request for "//" is keyed by "/".
C28_WitnessRaise ==
    \E r \in Requests :
       /\ ChainRaised(r)
       /\ req[r].path = <<"/">>
       /\ PathKeys(r) = { <<"r", "o", "o", "t">> }

C28_WitnessOneSlash ==
    \E r \in Requests :
       /\ Responded(r)
       /\ req[r].path = <<"/", "/">>
       /\ PathKeys(r) = { <<"/">> }

(***************************************************************************)
(* Properties of the lifespan (checked under SpecLifespan).                *)
(***************************************************************************)
\* The lifespan is entered in this step.
EntersLifespan == lifespan.pc = "out" /\ lifespan' # lifespan

\* The lifespan is left in this step.
LeavesLifespan == lifespan.pc = "body" /\ lifespan'.pc = "out"

\* The exporter kind init_telemetry selects is otlp_http and there is no
\* endpoint for it (the environment as it is once lines 33-39 have run).
NoEndpoint(cfg) ==
    AutoConfigure(cfg).exporter = "otlp_http" /\ ~AutoConfigure(cfg).endpoint

IsYield(e) == e = "yield"
IsPrintExc(e) == e = "print_exc"

IsFlush(e) == e = "force_flush"
IsShutdown(e) == e = "shutdown"
IsProviderNone(e) == e = "provider_none"

\* The lifespan has been in its body and has been left.
LifespanLeft == lifespan.pc = "out" /\ Count(lifespan.trace, IsYield) > 0

\* C29: when the lifespan was entered with tracing enabled, leaving its body,
\* normally or by an exception, flushes the provider, then shuts it down,
\* then sets _provider to None, in this order and each once, and nothing of
\* this happens before the body is left; when init_telemetry returned None,
\* the lifespan yields once and neither flushes nor shuts down.
C29_ShutdownOnEveryExit ==
    LET t == lifespan.trace
        n == Len(t)
    IN  /\ LifespanLeft =>
              IF lifespan.enabled
              THEN /\ n >= 4
                   /\ t[n - 3] = "yield"
                   /\ t[n - 2] = "force_flush"
                   /\ t[n - 1] = "shutdown"
                   /\ t[n] = "provider_none"
                   /\ Count(t, IsFlush) = 1
                   /\ Count(t, IsShutdown) = 1
                   /\ Count(t, IsProviderNone) = 1
                   /\ Count(t, IsYield) = 1
                   /\ provider = "None"
              ELSE /\ Count(t, IsYield) = 1
                   /\ Count(t, IsFlush) = 0
                   /\ Count(t, IsShutdown) = 0
                   /\ Count(t, IsProviderNone) = 0
        /\ lifespan.pc = "body" =>
              /\ Count(t, IsYield) = 1
              /\ Count(t, IsFlush) = 0
              /\ Count(t, IsShutdown) = 0
              /\ lifespan.enabled <=> provider # "None"

\* C29 witness: the body of a lifespan with tracing enabled has been left by
\* an exception; the provider was flushed and shut down and _provider is None.
C29_Witness ==
    /\ LifespanLeft
    /\ lifespan.enabled
    /\ lifespan.error = HostError
    /\ Count(lifespan.trace, IsFlush) = 1
    /\ lifespan.trace[Len(lifespan.trace)] = "provider_none"
    /\ provider = "None"

\* The body of a lifespan with tracing disabled has been left.
C29_WitnessDisabled ==
    /\ LifespanLeft
    /\ ~lifespan.enabled
    /\ lifespan.trace[Len(lifespan.trace)] = "yield"

\* C16: when the exporter kind selected is otlp_http and no endpoint is
\* configured, init_telemetry prints its warning and returns None: nothing
\* is raised, no provider and no exporter is constructed, _provider is left
\* unset, the lifespan yields, and every handler registered while it is in
\* its body comes back as it is.
C16_NoEndpointFailsSoft ==
    /\ [][ (EntersLifespan /\ NoEndpoint(lifespan'.cfg))
             => /\ provider' = "None"
                /\ lifespan'.error = NoError
                /\ lifespan'.pc = "body"
                /\ ~lifespan'.enabled
                /\ lifespan'.trace = <<"warning", "yield">> ]_vars
    /\ [][ \A s \in Slots :
             (lifespan.pc = "body" /\ NoEndpoint(lifespan.cfg) /\ comp'[s] # comp[s])
                => comp'[s].callable = "func" ]_vars

\* C16 witness: the lifespan was entered with otlp_http and no endpoint, and
\* a handler registered in its body was called as itself.
C16_Witness ==
    /\ lifespan.pc = "body"
    /\ lifespan.cfg = [exporter |-> "otlp_http", endpoint |-> FALSE,
                       golf_api_key |-> FALSE]
    /\ lifespan.fault = "exporter"
    /\ \E s \in Slots : /\ comp[s].callable = "func"
                        /\ inv[s].pc = "done"
                        /\ inv[s].trace = <<"handler_call", "handler_exit">>

\* C17: when the construction of the exporter, the attachment of the span
\* processor or the registration of the provider raises, the exception leaves
\* init_telemetry and telemetry_lifespan (which never yields), and _provider
\* is not set; _provider is None whenever the lifespan is not in its body.
C17_BackendFailurePropagates ==
    /\ [][ (EntersLifespan /\ ~NoEndpoint(lifespan'.cfg) /\ lifespan'.fault # "none")
             => /\ lifespan'.error = BackendError
                /\ lifespan'.pc = "out"
                /\ Count(lifespan'.trace, IsYield) = 0
                /\ Count(lifespan'.trace, IsPrintExc) = 1
                /\ provider' = "None" ]_vars
    /\ [](lifespan.pc = "out" => provider = "None")

\* C17 witness: the attachment of the span processor has raised, and a
\* handler registered afterwards was called as itself.
C17_Witness ==
    /\ lifespan.pc = "out"
    /\ lifespan.fault = "processor"
    /\ lifespan.error = BackendError
    /\ provider = "None"
    /\ \E s \in Slots : comp[s].callable = "func" /\ inv[s].pc = "done"

\* C18: when the middleware setup raises (the import, add_middleware or the
\* patch of handle_request), the exception is caught and printed, the
\* lifespan yields once with tracing enabled, nothing leaves it at entry, and
\* when it is left, in either way, the provider is flushed, shut down and
\* _provider set to None.
C18_SetupFailureCaught ==
    /\ [][ (/\ EntersLifespan
            /\ ~NoEndpoint(lifespan'.cfg)
            /\ lifespan'.fault = "none"
            /\ lifespan'.setupFault # "none")
             => /\ lifespan'.pc = "body"
                /\ lifespan'.error = NoError
                /\ Count(lifespan'.trace, IsPrintExc) = 1
                /\ Count(lifespan'.trace, IsYield) = 1
                /\ lifespan'.trace[Len(lifespan'.trace)] = "yield"
                /\ provider' = "provider" ]_vars
    /\ [][ (LeavesLifespan /\ lifespan.enabled /\ lifespan.setupFault # "none")
             => /\ lifespan'.trace = lifespan.trace
                                      \o <<"force_flush", "shutdown", "provider_none">>
                /\ Count(lifespan'.trace, IsYield) = 1
                /\ provider' = "None" ]_vars

\* C18 witness: add_middleware raised at entry, and the lifespan has been
\* left by an exception of the host, with the provider flushed and shut down.
C18_Witness ==
    /\ lifespan.pc = "out"
    /\ lifespan.enabled
    /\ lifespan.setupFault = "add_middleware"
    /\ lifespan.error = HostError
    /\ lifespan.trace[Len(lifespan.trace)] = "provider_none"
    /\ provider = "None"

(***************************************************************************)
(* Properties under a failing collector (checked under SpecCollectorFails).*)
(***************************************************************************)
\* C14, as the spec states it: with the metrics collector missing or its
\* calls raising, a wrapped call whose handler returned gives the caller the
\* handler's result and leaves the span with status OK, a wrapped call whose
\* handler raised gives the caller the handler's exception, and a request
\* whose downstream chain returned a response gives the caller that response.
C14_CollectorNeverAffects ==
    /\ \A s \in Slots :
          (FinishedWrapped(s) /\ inv[s].outcome.kind = "return")
             => /\ inv[s].result = inv[s].outcome
                /\ inv[s].status = "OK"
    /\ \A s \in Slots :
          (FinishedWrapped(s) /\ inv[s].outcome.kind = "raise")
             => inv[s].result = inv[s].outcome
    /\ \A r \in Requests :
          (req[r].pc = "done" /\ req[r].downstream.kind = "return")
             => req[r].result = req[r].downstream

=============================================================================
